---- MODULE Spec2Model ----
(***************************************************************************)
(* A model of the HTML content-extraction pipeline of the bless_crawl      *)
(* module (src/src/bless_crawl/html_transform.rs): transform_html parses   *)
(* a document, prunes it (include filter, structural noise, explicit       *)
(* exclusion, main-content filter), resolves srcset candidates and makes   *)
(* img src / a href absolute against the base URL.                         *)
(*                                                                         *)
(* The document is a tree of nodes (kuchikiki NodeRef): kids gives every   *)
(* node's ordered children, data its element name, class list, id and the  *)
(* three attributes the pipeline reads or writes (srcset, src, href).      *)
(* Strings the pipeline only compares are TLA+ strings; strings it parses  *)
(* (selectors, srcset descriptors, URL references) are records holding     *)
(* the parts the parser looks at.                                          *)
(***************************************************************************)
EXTENDS Integers, Sequences, FiniteSets, TLC

\* Bounds of the model: content elements below <body>, entries of a srcset,
\* pieces of a Markdown text, pages of a crawl response.
NumContent == 3
MaxEntries == 2
MaxChunks == 4
MaxPages == 2

-----------------------------------------------------------------------------
(* Nodes.  parse_html always builds document > html > (head, body); the    *)
(* include step parses a second document "<div></div>" the same way.       *)

DocumentNode == 0
HtmlNode == 1
HeadNode == 2
BodyNode == 3
ContentNodes == (BodyNode + 1)..(BodyNode + NumContent)
NewDocument == BodyNode + NumContent + 1
NewHtml == NewDocument + 1
NewHead == NewDocument + 2
NewBody == NewDocument + 3
WrapperDiv == NewDocument + 4
Nodes == DocumentNode..WrapperDiv
Scaffold == {NewDocument, NewHtml, NewHead, NewBody, WrapperDiv}

-----------------------------------------------------------------------------
(* Selectors (kuchikiki's select / select_first).  A selector string is    *)
(* modelled by what its parse yields: a type selector, a class selector,   *)
(* an id selector, type[attr], the universal selector, or a parse failure. *)

TagSel(name) == [kind |-> "tag", name |-> name, attr |-> ""]
ClassSel(name) == [kind |-> "class", name |-> name, attr |-> ""]
IdSel(name) == [kind |-> "id", name |-> name, attr |-> ""]
AttrSel(name, attr) == [kind |-> "tag_attr", name |-> name, attr |-> attr]
AnySel == [kind |-> "any", name |-> "*", attr |-> ""]
BadSel == [kind |-> "invalid", name |-> "[", attr |-> ""]

SelectorOk(sel) == sel.kind # "invalid"

EXCLUDE_NON_MAIN_TAGS ==
    << TagSel("header"), TagSel("footer"), TagSel("nav"), TagSel("aside"),
       ClassSel("header"), ClassSel("top"), ClassSel("navbar"), IdSel("header"),
       ClassSel("footer"), ClassSel("bottom"), IdSel("footer"),
       ClassSel("sidebar"), ClassSel("side"), ClassSel("aside"), IdSel("sidebar"),
       ClassSel("modal"), ClassSel("popup"), IdSel("modal"), ClassSel("overlay"),
       ClassSel("ad"), ClassSel("ads"), ClassSel("advert"), IdSel("ad"),
       ClassSel("lang-selector"), ClassSel("language"), IdSel("language-selector"),
       ClassSel("social"), ClassSel("social-media"), ClassSel("social-links"),
       IdSel("social"), ClassSel("menu"), ClassSel("navigation"), IdSel("nav"),
       ClassSel("breadcrumbs"), IdSel("breadcrumbs"), ClassSel("share"),
       IdSel("share"), ClassSel("widget"), IdSel("widget"), ClassSel("cookie"),
       IdSel("cookie") >>

FORCE_INCLUDE_MAIN_TAGS ==
    << IdSel("main"), ClassSel("swoogo-cols"), ClassSel("swoogo-text"),
       ClassSel("swoogo-table-div"), ClassSel("swoogo-space"),
       ClassSel("swoogo-alert"), ClassSel("swoogo-sponsors"),
       ClassSel("swoogo-title"), ClassSel("swoogo-tabs"), ClassSel("swoogo-logo"),
       ClassSel("swoogo-image"), ClassSel("swoogo-button"),
       ClassSel("swoogo-agenda") >>

unwanted_without_script ==
    << TagSel("head"), TagSel("meta"), TagSel("noscript"), TagSel("style") >>

unwanted_selectors ==
    << TagSel("head"), TagSel("meta"), TagSel("noscript"), TagSel("style"),
       TagSel("script") >>

-----------------------------------------------------------------------------
(* URL references (the value of src / href / a srcset url, and opts.url).  *)
(*   abs   scheme://host/path      root  /path       rel  path             *)
(*   empty ""                      bad   a reference Url::join rejects     *)
(*   none  the attribute is absent                                         *)

Ref(k, origin, path) == [k |-> k, origin |-> origin, path |-> path]
NoAttr == Ref("none", "", <<>>)
EmptyRef == Ref("empty", "", <<>>)
BadRef == Ref("bad", "", <<"//">>)
AbsUrl(origin, path) == Ref("abs", origin, path)
RootRef(path) == Ref("root", "", path)
RelRef(path) == Ref("rel", "", path)

\* Url::parse(&opts.url): only an absolute URL parses without a base.
UrlParse(u) == IF u.k = "abs" THEN [ok |-> TRUE, url |-> u]
               ELSE [ok |-> FALSE, url |-> NoAttr]

JoinRootOnBasePath(base, r) ==
    CASE r.k = "abs" -> [ok |-> TRUE, url |-> r]
      [] r.k = "root" -> [ok |-> TRUE,
                          url |-> AbsUrl(base.origin,
                                         SubSeq(base.path, 1, Len(base.path) - 1) \o r.path)]
      [] r.k = "rel" -> [ok |-> TRUE,
                         url |-> AbsUrl(base.origin,
                                        SubSeq(base.path, 1, Len(base.path) - 1) \o r.path)]
      [] r.k = "empty" -> [ok |-> TRUE, url |-> base]
      [] OTHER -> [ok |-> FALSE, url |-> NoAttr]

\* base_url.join(reference): an absolute reference replaces the base, a
\* root-relative one keeps the origin only, a path-relative one replaces the
\* last segment of the base path, the empty one yields the base itself.
Join(base, r) ==
    CASE r.k = "abs" -> [ok |-> TRUE, url |-> r]
      [] r.k = "root" -> [ok |-> TRUE, url |-> AbsUrl(base.origin, r.path)]
      [] r.k = "rel" -> [ok |-> TRUE,
                         url |-> AbsUrl(base.origin,
                                        SubSeq(base.path, 1, Len(base.path) - 1) \o r.path)]
      [] r.k = "empty" -> [ok |-> TRUE, url |-> base]
      [] OTHER -> [ok |-> FALSE, url |-> NoAttr]

-----------------------------------------------------------------------------
(* Elements.                                                               *)

El(tag, class, id) ==
    [tag |-> tag, class |-> class, id |-> id,
     srcset |-> <<>>, src |-> NoAttr, href |-> NoAttr]

IsElement(e) == e.tag # "#document"

HasAttr(e, a) ==
    CASE a = "srcset" -> e.srcset # <<>>
      [] a = "src" -> e.src.k # "none"
      [] a = "href" -> e.href.k # "none"
      [] OTHER -> FALSE

Matches(e, sel) ==
    /\ IsElement(e)
    /\ CASE sel.kind = "tag" -> e.tag = sel.name
         [] sel.kind = "class" -> sel.name \in e.class
         [] sel.kind = "id" -> e.id = sel.name
         [] sel.kind = "tag_attr" -> e.tag = sel.name /\ HasAttr(e, sel.attr)
         [] sel.kind = "any" -> TRUE
         [] OTHER -> FALSE

-----------------------------------------------------------------------------
(* Tree operations on k : [Nodes -> Seq(Nodes)].                           *)

RECURSIVE PreOrder(_, _)
\* The nodes below and including those of todo, in document order.
PreOrder(k, todo) ==
    IF todo = <<>> THEN <<>>
    ELSE <<Head(todo)>> \o PreOrder(k, k[Head(todo)] \o Tail(todo))

InclusiveDescendants(k, n) == PreOrder(k, <<n>>)

Range(s) == {s[i] : i \in DOMAIN s}

Reachable(k, root) == Range(InclusiveDescendants(k, root))

WithoutLaterSiblings(s, n) ==
    IF \E i \in DOMAIN s : s[i] = n
    THEN SubSeq(s, 1, (CHOOSE i \in DOMAIN s : s[i] = n) - 1)
    ELSE s

Without(s, n) == SelectSeq(s, LAMBDA m : m # n)

\* NodeRef::detach: the node leaves its parent's child list and keeps its
\* own subtree.
Detach(k, n) == [m \in DOMAIN k |-> Without(k[m], n)]

\* NodeRef::append(new_child): the child is detached, then becomes the last
\* child.
AppendChild(k, parent, n) == [Detach(k, n) EXCEPT ![parent] = Append(@, n)]

\* NodeRef::select: the inclusive descendants that are elements matching
\* the selector, in document order.
Select(k, d, root, sel) ==
    SelectSeq(InclusiveDescendants(k, root), LAMBDA m : Matches(d[m], sel))

\* NodeRef::select_first: Err(()) for an invalid selector and for no match.
SelectFirst(k, d, root, sel) ==
    LET found == IF SelectorOk(sel) THEN Select(k, d, root, sel) ELSE <<>>
    IN  IF found = <<>> THEN [ok |-> FALSE, node |-> root]
        ELSE [ok |-> TRUE, node |-> Head(found)]

RECURSIVE Serialize(_, _, _)
\* document.to_string(): every node with its attributes, then its children.
Serialize(k, d, n) ==
    <<d[n], [i \in 1..Len(k[n]) |-> Serialize(k, d, k[n][i])]>>

-----------------------------------------------------------------------------
(* Include filter (transform_html, lines 105-123).                         *)

\* parse_html().one("<div></div>"): document > html > (head, body > div).
ParseWrapper(k) ==
    [k EXCEPT ![NewDocument] = <<NewHtml>>,
              ![NewHtml] = <<NewHead, NewBody>>,
              ![NewBody] = <<WrapperDiv>>]

RECURSIVE AppendAllCloned(_, _, _)
AppendAllCloned(k, root, nodes) ==
    IF nodes = <<>> THEN k
    ELSE AppendAllCloned([k EXCEPT ![root] = Append(@, Head(nodes))], root, Tail(nodes))

RECURSIVE AppendAll(_, _, _)
\* for tag in matching_nodes { root.append(tag.clone()) }: each collected
\* node is moved below root (the clone is a handle to the same node).
AppendAll(k, root, nodes) ==
    IF nodes = <<>> THEN k
    ELSE AppendAll(AppendChild(k, root, Head(nodes)), root, Tail(nodes))

RECURSIVE IncludeLoopSkipsBadSelector(_, _, _, _)
IncludeLoopSkipsBadSelector(k, d, tags, i) ==
    IF i > Len(tags) THEN [ok |-> TRUE, kids |-> k]
    ELSE IF ~SelectorOk(tags[i]) THEN IncludeLoopSkipsBadSelector(k, d, tags, i + 1)
    ELSE IncludeLoopSkipsBadSelector(
             AppendAll(k, WrapperDiv, Select(k, d, DocumentNode, tags[i])),
             d, tags, i + 1)

RECURSIVE IncludeLoop(_, _, _, _)
\* for tag_selector in include_tags: select in the original document (a
\* selector that does not parse is SelectError), collect, append to root.
IncludeLoop(k, d, tags, i) ==
    IF i > Len(tags) THEN [ok |-> TRUE, kids |-> k]
    ELSE IF ~SelectorOk(tags[i]) THEN [ok |-> FALSE, kids |-> k]
    ELSE IncludeLoop(AppendAll(k, WrapperDiv, Select(k, d, DocumentNode, tags[i])),
                     d, tags, i + 1)

-----------------------------------------------------------------------------
(* Main-content filter (transform_html, lines 140-162).                    *)

ShouldKeepStrict(k, d, element) ==
    \E i \in DOMAIN FORCE_INCLUDE_MAIN_TAGS :
        \E c \in Range(k[element]) :
            Select(k, d, c, FORCE_INCLUDE_MAIN_TAGS[i]) # <<>>

ShouldKeepNever(k, d, element) == FALSE

\* should_keep: some force-include selector has a match among the element's
\* inclusive descendants (element.as_node().select(..).next().is_some()).
ShouldKeep(k, d, element) ==
    \E i \in DOMAIN FORCE_INCLUDE_MAIN_TAGS :
        Select(k, d, element, FORCE_INCLUDE_MAIN_TAGS[i]) # <<>>

RECURSIVE FilterElements(_, _, _)
\* for element in elements { if !should_keep { element.detach() } }
FilterElements(k, d, elements) ==
    IF elements = <<>> THEN k
    ELSE FilterElements(IF ShouldKeep(k, d, Head(elements)) THEN k
                        ELSE Detach(k, Head(elements)),
                        d, Tail(elements))

RECURSIVE MainContentLoop(_, _, _, _)
\* for selector in EXCLUDE_NON_MAIN_TAGS: collect the matches, then filter.
\* The loop is entered at selector i; a selector without a match in the
\* document leaves it as it is, so the turn taken is that of the first
\* selector from i on that has one.
MainContentLoop(k, d, root, i) ==
    LET present == Reachable(k, root)
        hits == {j \in i..Len(EXCLUDE_NON_MAIN_TAGS) :
                    \E m \in present : Matches(d[m], EXCLUDE_NON_MAIN_TAGS[j])}
    IN  IF hits = {} THEN k
        ELSE LET j == CHOOSE x \in hits : \A y \in hits : x <= y
             IN  MainContentLoop(
                     FilterElements(k, d, Select(k, d, root, EXCLUDE_NON_MAIN_TAGS[j])),
                     d, root, j + 1)

-----------------------------------------------------------------------------
(* Responsive images (transform_html, lines 164-219).                      *)
(* A srcset is the sequence of its comma-separated entries (split always   *)
(* yields at least one).  An entry is its first token (url), whether a     *)
(* second non-empty token follows (has_desc), and that token: whether all  *)
(* but its last character parse as an i32 (parses, n) and what its last    *)
(* character is ("x", "w", or "multibyte": a character of several bytes).  *)

Token(parses, n, last) == [parses |-> parses, n |-> n, last |-> last]
DefaultToken == Token(TRUE, 1, "x")
Entry(url, has_desc, token) == [url |-> url, has_desc |-> has_desc, token |-> token]
EmptyEntry == Entry(EmptyRef, FALSE, DefaultToken)

ImageSource(url, size, is_x) == [url |-> url, size |-> size, is_x |-> is_x]

\* size_token: tokens[1] when present and non-empty, else "1x".
SizeToken(entry) == IF entry.has_desc THEN entry.token ELSE DefaultToken

\* size_token[..size_token.len() - 1] panics when the cut falls inside the
\* last character.
SlicePanics(entry) == SizeToken(entry).last = "multibyte"

RECURSIVE ParseSrcset(_)
\* filter_map over the entries: an entry whose number parses becomes an
\* ImageSource, any other is dropped.
ParseSrcset(srcset) ==
    IF srcset = <<>> THEN <<>>
    ELSE LET t == SizeToken(Head(srcset))
         IN  (IF t.parses
              THEN <<ImageSource(Head(srcset).url, t.n, t.last = "x")>>
              ELSE <<>>) \o ParseSrcset(Tail(srcset))

AddSrcAlways(sizes, e) ==
    IF e.src.k # "none" THEN Append(sizes, ImageSource(e.src, 1, TRUE)) ELSE sizes

\* "Add src attribute as 1x if all sizes are x-based"
AddSrc(sizes, e) ==
    IF (\A i \in DOMAIN sizes : sizes[i].is_x) /\ e.src.k # "none"
    THEN Append(sizes, ImageSource(e.src, 1, TRUE))
    ELSE sizes

InsertAscending(x, sorted) ==
    LET n == Cardinality({i \in DOMAIN sorted : sorted[i].size <= x.size})
    IN  SubSeq(sorted, 1, n) \o <<x>> \o SubSeq(sorted, n + 1, Len(sorted))

\* x goes behind every element that does not sort after it (stable).
InsertDescending(x, sorted) ==
    LET n == Cardinality({i \in DOMAIN sorted : sorted[i].size >= x.size})
    IN  SubSeq(sorted, 1, n) \o <<x>> \o SubSeq(sorted, n + 1, Len(sorted))

RECURSIVE SortBySize(_)
\* sizes.sort_by(|a, b| b.size.cmp(&a.size)): stable, largest first.
SortBySize(sizes) ==
    IF sizes = <<>> THEN <<>>
    ELSE InsertDescending(sizes[Len(sizes)],
                          SortBySize(SubSeq(sizes, 1, Len(sizes) - 1)))

\* The element after its srcset was processed: src is the first of the
\* sorted candidates, if there is one; srcset is not written.
ResolveSrcset(e) ==
    LET sorted == SortBySize(AddSrc(ParseSrcset(e.srcset), e))
    IN  IF sorted = <<>> THEN e ELSE [e EXCEPT !.src = sorted[1].url]

-----------------------------------------------------------------------------
(* URL absolutization (transform_html, lines 221-259).                     *)

AbsolutizeSrcSkipSrcset(e, base) ==
    IF e.srcset # <<>> THEN e
    ELSE IF Join(base, e.src).ok THEN [e EXCEPT !.src = Join(base, e.src).url] ELSE e

\* if let Ok(new_url) = base_url.join(&old_src) { insert("src", new_url) }
AbsolutizeSrc(e, base) ==
    IF Join(base, e.src).ok THEN [e EXCEPT !.src = Join(base, e.src).url] ELSE e

\* if let Ok(new_url) = base_url.join(&old_href) { insert("href", new_url) }
AbsolutizeHref(e, base) ==
    IF Join(base, e.href).ok THEN [e EXCEPT !.href = Join(base, e.href).url] ELSE e

-----------------------------------------------------------------------------
(* State of one transform_html call.                                       *)
(*   opts      the argument: html (the parsed input: kids, data), url,     *)
(*             include_tags, exclude_tags, only_main_content               *)
(*   document  the root of the working document                            *)
(*   kids,data the nodes: ordered children, element data                   *)
(*   pc, idx   the position in the function, the selector of a loop        *)
(*   base_url  the parsed base URL                                         *)
(*   result    what the call returned: status Ok / Err / Panic             *)

VARIABLES opts, document, kids, data, pc, idx, base_url, result,
          html, htmd, markdown_content, markdown,
          crawler, call, host, pages, contents, outcome, client

\* The state outside transform_html: that of the Markdown post-processing
\* (html_to_markdown.rs), of the BlessCrawl client (mod.rs) and of the
\* RPC client (rpc.rs).
\*   html              the argument of parse_markdown
\*   htmd              what HtmlToMarkdown::new().convert(html) answers
\*   markdown_content  the argument of process_multiline_links or
\*                     remove_skip_to_content_links
\*   markdown          the String the called function returned
\*   crawler           the BlessCrawl instance: inner, config
\*   call              the call being made: op, options, the configuration
\*                     in effect for it, the host's reply to it, and the
\*                     method's local copy of the handle
\*   host              the requests that reached the host since the
\*                     instance was last idle, in order; for an RpcClient
\*                     the requests it built, in order
\*   pages             the pages of the host's response still to process
\*   contents          the content of the pages processed so far
\*   outcome           what the call returned
\*   client            the RpcClient: next_id, buffer_size
outside == <<html, htmd, markdown_content, markdown,
             crawler, call, host, pages, contents, outcome, client>>

vars == <<opts, document, kids, data, pc, idx, base_url, result, outside>>

Running == [status |-> "running", err |-> "", content |-> <<>>]
Ok(content) == [status |-> "Ok", err |-> "", content |-> content]
Err(kind) == [status |-> "Err", err |-> kind, content |-> <<>>]
Panic == [status |-> "Panic", err |-> "", content |-> <<>>]

IncludeFilterKeepsDocument(k, d, tags) ==
    IF tags = <<>> THEN [ok |-> TRUE, kids |-> k, document |-> DocumentNode]
    ELSE LET r == IncludeLoop(ParseWrapper(k), d, tags, 1)
         IN  [ok |-> r.ok, kids |-> r.kids, document |-> DocumentNode]

\* if !opts.include_tags.is_empty() { ...; document = new_document }
IncludeFilter(k, d, tags) ==
    IF tags = <<>> THEN [ok |-> TRUE, kids |-> k, document |-> DocumentNode]
    ELSE LET r == IncludeLoop(ParseWrapper(k), d, tags, 1)
         IN  [ok |-> r.ok, kids |-> r.kids, document |-> NewDocument]

\* Lines 105-123: the include filter; the working document becomes the
\* wrapper document.
IncludeTags ==
    /\ pc = "include"
    /\ LET r == IncludeFilter(kids, data, opts.include_tags)
       IN  IF r.ok
           THEN /\ kids' = r.kids
                /\ document' = r.document
                /\ pc' = "unwanted"
                /\ UNCHANGED result
           ELSE /\ result' = Err("SelectError")
                /\ pc' = "done"
                /\ UNCHANGED <<document, kids>>
    /\ UNCHANGED <<opts, data, idx, base_url>>
    /\ UNCHANGED outside

DetachFirstThenAdvance(selectors, next) ==
    IF idx > Len(selectors)
    THEN pc' = next /\ idx' = 1 /\ UNCHANGED kids
    ELSE LET first == SelectFirst(kids, data, document, selectors[idx])
         IN  /\ kids' = IF first.ok THEN Detach(kids, first.node) ELSE kids
             /\ IF idx < Len(selectors)
                THEN idx' = idx + 1 /\ UNCHANGED pc
                ELSE pc' = next /\ idx' = 1

DetachFirstKeepsNode(selectors, next) ==
    IF idx > Len(selectors)
    THEN pc' = next /\ idx' = 1 /\ UNCHANGED kids
    ELSE LET first == SelectFirst(kids, data, document, selectors[idx])
         IN  IF first.ok
             THEN UNCHANGED <<kids, pc, idx>>
             ELSE IF idx < Len(selectors)
                  THEN idx' = idx + 1 /\ UNCHANGED <<pc, kids>>
                  ELSE pc' = next /\ idx' = 1 /\ UNCHANGED kids

\* One turn of a find-first-and-detach loop over selectors: detach the first
\* match of selectors[idx]; without one, go on to the next selector, and
\* after the last to the step that follows.
DetachFirstOrAdvance(selectors, next) ==
    IF idx > Len(selectors)
    THEN pc' = next /\ idx' = 1 /\ UNCHANGED kids
    ELSE LET first == SelectFirst(kids, data, document, selectors[idx])
         IN  IF first.ok
             THEN kids' = Detach(kids, first.node) /\ UNCHANGED <<pc, idx>>
             ELSE IF idx < Len(selectors)
                  THEN idx' = idx + 1 /\ UNCHANGED <<pc, kids>>
                  ELSE pc' = next /\ idx' = 1 /\ UNCHANGED kids

\* Lines 125-131.
RemoveUnwanted ==
    /\ pc = "unwanted"
    /\ DetachFirstOrAdvance(unwanted_selectors, "exclude")
    /\ UNCHANGED <<opts, document, data, base_url, result>>
    /\ UNCHANGED outside

RemoveExcludedSkipped ==
    /\ pc = "exclude"
    /\ pc' = "main"
    /\ idx' = 1
    /\ UNCHANGED <<opts, document, kids, data, base_url, result>>
    /\ UNCHANGED outside

\* Lines 133-138.
RemoveExcluded ==
    /\ pc = "exclude"
    /\ DetachFirstOrAdvance(opts.exclude_tags, "main")
    /\ UNCHANGED <<opts, document, data, base_url, result>>
    /\ UNCHANGED outside

\* Lines 140-162.
RemoveNonMain ==
    /\ pc = "main"
    /\ kids' = IF opts.only_main_content
               THEN MainContentLoop(kids, data, document, 1)
               ELSE kids
    /\ pc' = "srcset"
    /\ UNCHANGED <<opts, document, data, idx, base_url, result>>
    /\ UNCHANGED outside

\* Lines 164-219.
ProcessSrcset ==
    /\ pc = "srcset"
    /\ LET images == Range(Select(kids, data, document, AttrSel("img", "srcset")))
       IN  IF \E n \in images : \E i \in DOMAIN data[n].srcset :
                  SlicePanics(data[n].srcset[i])
           THEN /\ result' = Panic
                /\ pc' = "done"
                /\ UNCHANGED data
           ELSE /\ data' = [n \in Nodes |->
                               IF n \in images THEN ResolveSrcset(data[n]) ELSE data[n]]
                /\ pc' = "base"
                /\ UNCHANGED result
    /\ UNCHANGED <<opts, document, kids, idx, base_url>>
    /\ UNCHANGED outside

\* Lines 221-222.
ParseBaseUrl ==
    /\ pc = "base"
    /\ IF UrlParse(opts.url).ok
       THEN /\ base_url' = UrlParse(opts.url).url
            /\ pc' = "img"
            /\ UNCHANGED result
       ELSE /\ result' = Err("UrlParseError")
            /\ pc' = "done"
            /\ UNCHANGED base_url
    /\ UNCHANGED <<opts, document, kids, data, idx>>
    /\ UNCHANGED outside

\* Lines 224-238.
AbsolutizeImages ==
    /\ pc = "img"
    /\ LET images == Range(Select(kids, data, document, AttrSel("img", "src")))
       IN  data' = [n \in Nodes |->
                       IF n \in images THEN AbsolutizeSrc(data[n], base_url) ELSE data[n]]
    /\ pc' = "anchor"
    /\ UNCHANGED <<opts, document, kids, idx, base_url, result>>
    /\ UNCHANGED outside

\* Lines 240-261: the anchors, then Ok(document.to_string()).
AbsolutizeAnchors ==
    /\ pc = "anchor"
    /\ LET anchors == Range(Select(kids, data, document, AttrSel("a", "href")))
       IN  data' = [n \in Nodes |->
                       IF n \in anchors THEN AbsolutizeHref(data[n], base_url) ELSE data[n]]
    /\ result' = Ok(Serialize(kids, data', document))
    /\ pc' = "done"
    /\ UNCHANGED <<opts, document, kids, idx, base_url>>
    /\ UNCHANGED outside

Next ==
    \/ IncludeTags
    \/ RemoveUnwanted
    \/ RemoveExcluded
    \/ RemoveNonMain
    \/ ProcessSrcset
    \/ ParseBaseUrl
    \/ AbsolutizeImages
    \/ AbsolutizeAnchors

-----------------------------------------------------------------------------
(* Inputs.  parse_html(opts.html) is taken at the parser's output: any     *)
(* tree document > html > (head, body > content...), the content elements  *)
(* numbered in document order.                                             *)

RECURSIVE Ascending(_)
Ascending(S) ==
    IF S = {} THEN <<>>
    ELSE LET m == CHOOSE x \in S : \A y \in S : x <= y
         IN  <<m>> \o Ascending(S \ {m})

\* Every shape of the content: the parent of a content element is body or
\* an earlier content element.
Shapes == {p \in [ContentNodes -> {BodyNode} \cup ContentNodes] :
              \A c \in ContentNodes : p[c] < c}

ParsedKids(p) ==
    [n \in Nodes |->
        CASE n = DocumentNode -> <<HtmlNode>>
          [] n = HtmlNode -> <<HeadNode, BodyNode>>
          [] n = HeadNode -> <<>>
          [] n \in {BodyNode} \cup ContentNodes ->
                 Ascending({c \in ContentNodes : p[c] = n})
          [] OTHER -> <<>>]

ParsedData(content) ==
    [n \in Nodes |->
        CASE n \in {DocumentNode, NewDocument} -> El("#document", {}, "")
          [] n \in {HtmlNode, NewHtml} -> El("html", {}, "")
          [] n \in {HeadNode, NewHead} -> El("head", {}, "")
          [] n \in {BodyNode, NewBody} -> El("body", {}, "")
          [] n = WrapperDiv -> El("div", {}, "")
          [] OTHER -> content[n]]

BaseUrl == AbsUrl("https://example.com", <<"subdir", "">>)
NotAUrl == RelRef(<<"example.com">>)

\* No BlessCrawl instance and no RpcClient exists and none of their methods
\* is called.
NoCrawler ==
    /\ crawler = [inner |-> 0, config |-> <<>>]
    /\ call = [op |-> "none", options |-> <<>>, config |-> <<>>, reply |-> <<>>,
               handle |-> 0]
    /\ host = <<>>
    /\ pages = <<>>
    /\ contents = <<>>
    /\ outcome = Running
    /\ client = [next_id |-> 0, buffer_size |-> 0]

\* No Markdown post-processing is going on.
NoMarkdown ==
    /\ html = <<>>
    /\ htmd = [ok |-> FALSE, md |-> <<>>]
    /\ markdown_content = <<>>
    /\ markdown = <<>>

Start(p, content, url, include_tags, exclude_tags, only_main_content) ==
    /\ opts = [html |-> [kids |-> ParsedKids(p), data |-> ParsedData(content)],
               url |-> url,
               include_tags |-> include_tags,
               exclude_tags |-> exclude_tags,
               only_main_content |-> only_main_content]
    /\ document = DocumentNode
    /\ kids = ParsedKids(p)
    /\ data = ParsedData(content)
    /\ pc = "include"
    /\ idx = 1
    /\ base_url = NoAttr
    /\ result = Running
    /\ NoMarkdown
    /\ NoCrawler

\* Documents of .content divs, .ad divs and scripts, under every combination
\* of include and exclude lists.
PruneKinds == { El("div", {"content"}, ""), El("div", {"ad"}, ""), El("script", {}, "") }
IncludeChoices == { <<>>, <<ClassSel("content")>>, <<TagSel("div"), TagSel("script")>> }
ExcludeChoices == { <<>>, <<ClassSel("ad")>>, <<ClassSel("content"), ClassSel("ad")>> }

Init ==
    \E p \in Shapes, content \in [ContentNodes -> PruneKinds],
       inc \in IncludeChoices, exc \in ExcludeChoices :
        Start(p, content, BaseUrl, inc, exc, FALSE)

Spec == Init /\ [][Next]_vars

\* Documents of plain divs, .widget divs (on the non-main list), #main divs
\* (on the force-include list) and .widget#main divs (on both), with and
\* without only_main_content, with and without #main excluded.
MainKinds == { El("div", {}, ""), El("div", {"widget"}, ""),
               El("div", {}, "main"), El("div", {"widget"}, "main") }
MainExcludeChoices == { <<>>, <<IdSel("main")>> }

InitMain ==
    \E p \in Shapes, content \in [ContentNodes -> MainKinds],
       exc \in MainExcludeChoices, only_main_content \in BOOLEAN :
        Start(p, content, BaseUrl, <<>>, exc, only_main_content)

SpecMain == InitMain /\ [][Next]_vars

\* Documents of plain divs, .widget divs, #main divs and .widget.swoogo-cols
\* divs (non-main and force-include at once, under another selector than
\* #main), with #main or .swoogo-cols excluded or nothing.
PriorityKinds == { El("div", {}, ""), El("div", {"widget"}, ""),
                   El("div", {}, "main"), El("div", {"widget", "swoogo-cols"}, "") }
PriorityExcludeChoices == { <<>>, <<IdSel("main")>>, <<ClassSel("swoogo-cols")>> }

InitPriority ==
    \E p \in Shapes, content \in [ContentNodes -> PriorityKinds],
       exc \in PriorityExcludeChoices, only_main_content \in BOOLEAN :
        Start(p, content, BaseUrl, <<>>, exc, only_main_content)

SpecPriority == InitPriority /\ [][Next]_vars

\* Documents of .ad divs and scripts, with exclude lists whose selectors
\* match the root element, every element, every content element or
\* nothing; a call runs to its end: no step of it waits for anything.
TerminationKinds == { El("div", {"ad"}, ""), El("script", {}, "") }
TerminationExcludeChoices ==
    { <<TagSel("html")>>, <<AnySel>>, <<ClassSel("ad"), TagSel("body")>>,
      <<ClassSel("none"), TagSel("div")>> }

InitTermination ==
    \E p \in Shapes, content \in [ContentNodes -> TerminationKinds],
       exc \in TerminationExcludeChoices, only_main_content \in BOOLEAN :
        Start(p, content, BaseUrl, <<>>, exc, only_main_content)

SpecTermination == InitTermination /\ [][Next]_vars /\ WF_vars(Next)

\* Documents of images and links.  The url of a srcset entry is told by its
\* position, so that the chosen candidate can be read off the result: the
\* entries are path-relative, root-relative and absolute in turn.
SrcsetUrl(i) ==
    CASE i % 3 = 1 -> RelRef(<<"small.jpg">>)
      [] i % 3 = 2 -> RootRef(<<"large.jpg">>)
      [] OTHER -> AbsUrl("https://cdn.example.com", <<"huge.jpg">>)

\* Descriptors "0x", "2x", "0w", "3w", "1.5x" (no i32) and "2" followed by a
\* character of several bytes, as in "2×".
Descriptors ==
    { Token(TRUE, 0, "x"), Token(TRUE, 2, "x"), Token(TRUE, 0, "w"),
      Token(TRUE, 3, "w"), Token(FALSE, 0, "x"), Token(TRUE, 2, "multibyte") }

\* The entries possible at position i: a bare url, a url with a descriptor,
\* or nothing between the commas.
Entries(i) ==
    { Entry(SrcsetUrl(i), FALSE, DefaultToken), EmptyEntry }
        \cup { Entry(SrcsetUrl(i), TRUE, t) : t \in Descriptors }

\* No srcset attribute, or one of 1..MaxEntries entries.
Srcsets ==
    { <<>> } \cup
    UNION { { s \in [1..n -> UNION { Entries(i) : i \in 1..n }] :
                  \A i \in 1..n : s[i] \in Entries(i) } : n \in 1..MaxEntries }

DefaultSrc == RelRef(<<"default.jpg">>)

\* The first content element is an iframe with src and href or an img whose
\* src cannot be joined, the second an img with any srcset, with or without
\* src, the third a link; further ones are plain divs.
FirstKinds ==
    { [El("iframe", {}, "") EXCEPT !.src = DefaultSrc, !.href = RootRef(<<"page">>)],
      [El("img", {}, "") EXCEPT !.src = BadRef] }
ImageKinds ==
    { [El("img", {}, "") EXCEPT !.srcset = s, !.src = u] :
          s \in Srcsets, u \in {NoAttr, DefaultSrc} }
LinkKinds ==
    { [El("a", {}, "") EXCEPT !.href = h] :
          h \in { NoAttr, RootRef(<<"page">>), BadRef,
                  AbsUrl("https://other.example", <<"x">>) } }

FirstNode == BodyNode + 1
ImageNode == BodyNode + 2
LinkNode == BodyNode + 3

InitImg ==
    \E first \in FirstKinds, image \in ImageKinds, link \in LinkKinds,
       url \in {BaseUrl, NotAUrl} :
        Start([c \in ContentNodes |-> BodyNode],
              [c \in ContentNodes |->
                  CASE c = FirstNode -> first
                    [] c = ImageNode -> image
                    [] c = LinkNode -> link
                    [] OTHER -> El("div", {}, "")],
              url, <<>>, <<>>, FALSE)

SpecImg == InitImg /\ [][Next]_vars

\* Option lists holding a selector that does not parse ("div["), alone,
\* behind and in front of one that does.
BadIncludeChoices == { <<>>, <<ClassSel("content")>>, <<ClassSel("content"), BadSel>> }
BadExcludeChoices == { <<>>, <<BadSel>>, <<BadSel, ClassSel("ad")>> }

InitSel ==
    \E p \in Shapes, content \in [ContentNodes -> PruneKinds],
       inc \in BadIncludeChoices, exc \in BadExcludeChoices :
        Start(p, content, BaseUrl, inc, exc, FALSE)

SpecSel == InitSel /\ [][Next]_vars

-----------------------------------------------------------------------------
(* Markdown post-processing (html_to_markdown.rs).  A text is the sequence *)
(* of its characters; the words "Skip to Content" / "Skip to content",     *)
(* which the functions only ever compare as a whole, are one element each. *)

\* A counter that runs below zero instead of stopping there.
ScanLinksUnfloored(text, i, link_open_count, out) ==
    LET ScanSigned[j \in 1..(Len(text) + 1), count \in -Len(text)..Len(text)] ==
            IF j > Len(text) THEN <<>>
            ELSE LET ch == text[j]
                     now == CASE ch = "[" -> count + 1
                              [] ch = "]" -> count - 1
                              [] OTHER -> count
                 IN  (IF now > 0 /\ ch = "\n" THEN <<"\\", "\n">> ELSE <<ch>>)
                         \o ScanSigned[j + 1, now]
    IN  out \o ScanSigned[i, link_open_count]

RECURSIVE ScanLinks(_, _, _, _)
\* for ch in markdown_content.chars() { ... }: the turns of the loop from
\* character i on, with the counter and the output so far.
ScanLinks(text, i, link_open_count, out) ==
    IF i > Len(text) THEN out
    ELSE LET ch == text[i]
             count == CASE ch = "[" -> link_open_count + 1
                        [] ch = "]" -> IF link_open_count > 0
                                       THEN link_open_count - 1 ELSE 0
                        [] OTHER -> link_open_count
             inside_link_content == count > 0
         IN  ScanLinks(text, i + 1, count,
                       IF inside_link_content /\ ch = "\n"
                       THEN out \o <<"\\", "\n">>
                       ELSE Append(out, ch))

process_multiline_links(text) == ScanLinks(text, 1, 0, <<>>)

\* (?i): the letters of the pattern match in either case.
FoldCase(ch) ==
    CASE ch = "Skip to Content" -> "skip to content"
      [] ch = "Skip to content" -> "skip to content"
      [] OTHER -> ch

MatchEndAnyTarget(text, i) ==
    IF /\ i + 4 <= Len(text)
       /\ text[i] = "["
       /\ FoldCase(text[i + 1]) = FoldCase("Skip to Content")
       /\ text[i + 2] = "]"
       /\ text[i + 3] = "("
       /\ \E j \in (i + 4)..Len(text) : text[j] = ")"
    THEN CHOOSE j \in (i + 4)..Len(text) :
             text[j] = ")" /\ \A m \in (i + 4)..(j - 1) : text[m] # ")"
    ELSE 0

MatchEndExactCase(text, i) ==
    IF /\ i + 5 <= Len(text)
       /\ text[i] = "["
       /\ text[i + 1] = "Skip to Content"
       /\ text[i + 2] = "]"
       /\ text[i + 3] = "("
       /\ text[i + 4] = "#"
       /\ \E j \in (i + 5)..Len(text) : text[j] = ")"
    THEN CHOOSE j \in (i + 5)..Len(text) :
             text[j] = ")" /\ \A m \in (i + 5)..(j - 1) : text[m] # ")"
    ELSE 0

\* Where the match of \[Skip to Content\]\(#[^)]*\) that starts at i ends:
\* at the first ")" behind "(#"; 0 when none starts at i.
MatchEnd(text, i) ==
    IF /\ i + 5 <= Len(text)
       /\ text[i] = "["
       /\ FoldCase(text[i + 1]) = FoldCase("Skip to Content")
       /\ text[i + 2] = "]"
       /\ text[i + 3] = "("
       /\ text[i + 4] = "#"
       /\ \E j \in (i + 5)..Len(text) : text[j] = ")"
    THEN CHOOSE j \in (i + 5)..Len(text) :
             text[j] = ")" /\ \A m \in (i + 5)..(j - 1) : text[m] # ")"
    ELSE 0

RECURSIVE ReplaceAll(_, _, _)
\* re.replace_all(markdown_content, ""): one pass from the left; the text
\* of a match is dropped and the search goes on behind it.
ReplaceAll(text, i, out) ==
    IF i > Len(text) THEN out
    ELSE IF MatchEnd(text, i) # 0
         THEN ReplaceAll(text, MatchEnd(text, i) + 1, out)
         ELSE ReplaceAll(text, i + 1, Append(out, text[i]))

remove_skip_to_content_links(text) == ReplaceAll(text, 1, <<>>)

parse_markdown_raw_on_failure(h, converted) ==
    IF h = <<>> THEN <<>>
    ELSE IF ~converted.ok THEN h
    ELSE remove_skip_to_content_links(process_multiline_links(converted.md))

\* parse_markdown(html), converted being the answer of htmd for html.
parse_markdown(h, converted) ==
    IF h = <<>> THEN <<>>
    ELSE IF ~converted.ok THEN <<>>
    ELSE remove_skip_to_content_links(process_multiline_links(converted.md))

\* A call of one of the three functions, as the module's tests make them.
CallParseMarkdown ==
    /\ pc = "parse_markdown"
    /\ markdown' = parse_markdown(html, htmd)
    /\ pc' = "returned"
    /\ UNCHANGED <<opts, document, kids, data, idx, base_url, result,
                   html, htmd, markdown_content>>
    /\ UNCHANGED <<crawler, call, host, pages, contents, outcome, client>>

CallProcessMultilineLinks ==
    /\ pc = "process_multiline_links"
    /\ markdown' = process_multiline_links(markdown_content)
    /\ pc' = "returned"
    /\ UNCHANGED <<opts, document, kids, data, idx, base_url, result,
                   html, htmd, markdown_content>>
    /\ UNCHANGED <<crawler, call, host, pages, contents, outcome, client>>

CallRemoveSkipToContentLinks ==
    /\ pc = "remove_skip_to_content_links"
    /\ markdown' = remove_skip_to_content_links(markdown_content)
    /\ pc' = "returned"
    /\ UNCHANGED <<opts, document, kids, data, idx, base_url, result,
                   html, htmd, markdown_content>>
    /\ UNCHANGED <<crawler, call, host, pages, contents, outcome, client>>

NextMd ==
    \/ CallParseMarkdown
    \/ CallProcessMultilineLinks
    \/ CallRemoveSkipToContentLinks

\* The pieces texts are made of: single characters, a skip-link label in two
\* spellings, a fragment link target without and with text.
Chunks ==
    { <<"[">>, <<"]">>, <<"\n">>, <<"a">>,
      <<"[", "Skip to Content", "]">>, <<"[", "Skip to content", "]">>,
      <<"(", "#", ")">>, <<"(", "#", "a", ")">> }

RECURSIVE Flatten(_)
Flatten(pieces) ==
    IF pieces = <<>> THEN <<>> ELSE Head(pieces) \o Flatten(Tail(pieces))

\* Every text of at most MaxChunks pieces.
Texts == { Flatten(c) : c \in UNION { [1..n -> Chunks] : n \in 0..MaxChunks } }

\* No transform_html call is going on.
NoTransform ==
    /\ opts = [html |-> [kids |-> [n \in Nodes |-> <<>>],
                         data |-> [n \in Nodes |-> El("#document", {}, "")]],
               url |-> NoAttr, include_tags |-> <<>>, exclude_tags |-> <<>>,
               only_main_content |-> FALSE]
    /\ document = DocumentNode
    /\ kids = [n \in Nodes |-> <<>>]
    /\ data = [n \in Nodes |-> El("#document", {}, "")]
    /\ idx = 1
    /\ base_url = NoAttr
    /\ result = Running

\* parse_markdown on an empty or a non-empty html, for which htmd answers
\* with an error or with any text; the two helpers on any text.
InitMd ==
    /\ NoTransform
    /\ NoCrawler
    /\ markdown = <<>>
    /\ \/ /\ pc = "parse_markdown"
          /\ html \in { <<>>, <<"<p>", "a", "</p>">> }
          /\ htmd \in { [ok |-> FALSE, md |-> <<>>] } \cup { [ok |-> TRUE, md |-> t] : t \in Texts }
          /\ markdown_content = <<>>
       \/ /\ pc \in { "process_multiline_links", "remove_skip_to_content_links" }
          /\ html = <<>>
          /\ htmd = [ok |-> FALSE, md |-> <<>>]
          /\ markdown_content \in Texts

SpecMd == InitMd /\ [][NextMd]_vars

\* Texts around skip links: blanks and letters, the label, a fragment target
\* closed and left open, and a target that is no fragment.
FrameChunks ==
    { <<" ">>, <<"a">>, <<"[", "Skip to Content", "]">>,
      <<"(", "#", ")">>, <<"(", "#">>, <<"(", "a", ")">> }

FrameTexts == { Flatten(c) : c \in UNION { [1..n -> FrameChunks] : n \in 0..MaxChunks } }

InitFrame ==
    /\ NoTransform
    /\ NoCrawler
    /\ markdown = <<>>
    /\ \/ /\ pc = "parse_markdown"
          /\ html = <<"<p>", "a", "</p>">>
          /\ htmd \in { [ok |-> TRUE, md |-> t] : t \in FrameTexts }
          /\ markdown_content = <<>>
       \/ /\ pc \in { "process_multiline_links", "remove_skip_to_content_links" }
          /\ html = <<>>
          /\ htmd = [ok |-> FALSE, md |-> <<>>]
          /\ markdown_content \in FrameTexts

SpecFrame == InitFrame /\ [][NextMd]_vars

-----------------------------------------------------------------------------
(* The BlessCrawl client (mod.rs): an instance is built, one of scrape,    *)
(* map and crawl is called on it, the host answers, and the pages of the   *)
(* answer go through transform_html and the format's post-processing.      *)

DEFAULT_TIMEOUT_MS == 15000
DEFAULT_WAIT_TIME_MS == 3000
MAX_TIMEOUT_MS == 120000
MAX_WAIT_TIME_MS == 20000
MAX_SCRAPE_BUFFER_SIZE == 2 * 1024 * 1024
MAX_MAP_BUFFER_SIZE == 1 * 1024 * 1024
MAX_CRAWL_BUFFER_SIZE == 8 * 1024 * 1024

ScrapeOptions(timeout, wait_time, format, exclude_tags) ==
    [timeout |-> timeout, wait_time |-> wait_time, include_tags |-> <<>>,
     exclude_tags |-> exclude_tags, only_main_content |-> FALSE, format |-> format]

\* impl Default for ScrapeOptions
DefaultOptions ==
    ScrapeOptions(DEFAULT_TIMEOUT_MS, DEFAULT_WAIT_TIME_MS, "Markdown", <<>>)

\* Option<ScrapeOptions>::None
None == <<>>

validate_wait_time_only(config) ==
    IF config.wait_time > MAX_WAIT_TIME_MS THEN "InvalidWaitTime" ELSE "Ok"

\* validate_config: "Ok" or the error kind.
validate_config(config) ==
    IF config.timeout > MAX_TIMEOUT_MS THEN "InvalidTimeout"
    ELSE IF config.wait_time > MAX_WAIT_TIME_MS THEN "InvalidWaitTime"
    ELSE "Ok"

\* impl From<u8> for WebScrapeErrorKind, for the codes of the model.
FromCode(code) ==
    CASE code = 1 -> "InvalidUrl"
      [] code = 2 -> "Timeout"
      [] code = 3 -> "NetworkError"
      [] OTHER -> "RuntimeError"

NotImplemented == [status |-> "Panic", err |-> "not implemented", content |-> <<>>]

\* The transform_html call for a page of the response, with the tags of the
\* configuration c.
LoadPage(page, c) ==
    /\ opts' = [html |-> [kids |-> ParsedKids(page.shape), data |-> ParsedData(page.content)],
                url |-> page.url,
                include_tags |-> c.include_tags,
                exclude_tags |-> c.exclude_tags,
                only_main_content |-> c.only_main_content]
    /\ document' = DocumentNode
    /\ kids' = ParsedKids(page.shape)
    /\ data' = ParsedData(page.content)
    /\ pc' = "include"
    /\ idx' = 1
    /\ base_url' = NoAttr
    /\ result' = Running
    /\ html' = <<>>
    /\ htmd' = page.htmd
    /\ markdown' = <<>>

\* BlessCrawl::with_config(config)
WithConfig ==
    /\ pc = "with_config"
    /\ IF validate_config(call.options) = "Ok"
       THEN /\ crawler' = [inner |-> 0, config |-> call.options]
            /\ pc' = "ready"
            /\ UNCHANGED outcome
       ELSE /\ outcome' = Err(validate_config(call.options))
            /\ pc' = "returned"
            /\ UNCHANGED crawler
    /\ UNCHANGED <<opts, document, kids, data, idx, base_url, result>>
    /\ UNCHANGED <<html, htmd, markdown_content, markdown, call, host, pages, contents,
                   client>>

\* The configurations a caller passes: the limits at their default, at the
\* maximum and one above it, the other formats with an exclude list, and an
\* include list with a selector that does not parse.
OptionChoices ==
    { ScrapeOptions(t, w, "Markdown", <<>>) :
          t \in {DEFAULT_TIMEOUT_MS, MAX_TIMEOUT_MS, MAX_TIMEOUT_MS + 1},
          w \in {DEFAULT_WAIT_TIME_MS, MAX_WAIT_TIME_MS, MAX_WAIT_TIME_MS + 1} }
    \cup { ScrapeOptions(DEFAULT_TIMEOUT_MS, DEFAULT_WAIT_TIME_MS, f, <<ClassSel("ad")>>) :
               f \in {"Html", "Json"} }
    \cup { [DefaultOptions EXCEPT !.include_tags = <<BadSel>>] }

\* The request as the host sees it.
Request(op, config) == [op |-> op, options |-> config]

\* scrape(url, options) up to the host call.
Scrape ==
    /\ pc = "ready"
    /\ \E options \in {None} \cup OptionChoices :
          IF options # None /\ validate_config(options) # "Ok"
          THEN /\ call' = [op |-> "scrape", options |-> options, config |-> None,
                            reply |-> None, handle |-> crawler.inner]
               /\ outcome' = Err(validate_config(options))
               /\ pc' = "returned"
               /\ UNCHANGED host
          ELSE LET config == IF options # None THEN options ELSE crawler.config
               IN  /\ call' = [op |-> "scrape", options |-> options, config |-> config,
                                reply |-> None, handle |-> crawler.inner]
                   /\ host' = Append(host, Request("scrape", config))
                   /\ pc' = "host"
                   /\ UNCHANGED outcome
    /\ UNCHANGED <<opts, document, kids, data, idx, base_url, result>>
    /\ UNCHANGED <<html, htmd, markdown_content, markdown, crawler, pages, contents,
                   client>>

\* map(url, options) up to the host call.
Map ==
    /\ pc = "ready"
    /\ call' = [op |-> "map", options |-> None, config |-> crawler.config,
                 reply |-> None, handle |-> crawler.inner]
    /\ host' = Append(host, Request("map", crawler.config))
    /\ pc' = "host"
    /\ UNCHANGED <<opts, document, kids, data, idx, base_url, result>>
    /\ UNCHANGED <<html, htmd, markdown_content, markdown, crawler, pages,
                   contents, outcome, client>>

\* crawl(url, options) up to the host call.
Crawl ==
    /\ pc = "ready"
    /\ call' = [op |-> "crawl", options |-> None, config |-> crawler.config,
                 reply |-> None, handle |-> crawler.inner]
    /\ host' = Append(host, Request("crawl", crawler.config))
    /\ pc' = "host"
    /\ UNCHANGED <<opts, document, kids, data, idx, base_url, result>>
    /\ UNCHANGED <<html, htmd, markdown_content, markdown, crawler, pages,
                   contents, outcome, client>>

\* The result buffer of a call.
BufferSize(op) ==
    CASE op = "scrape" -> MAX_SCRAPE_BUFFER_SIZE
      [] op = "map" -> MAX_MAP_BUFFER_SIZE
      [] OTHER -> MAX_CRAWL_BUFFER_SIZE

\* A page of a response: its document, its metadata.url, and what htmd will
\* answer for its transformed html.
Page(third, url, converted) ==
    [shape |-> [c \in ContentNodes |-> BodyNode],
     content |-> [c \in ContentNodes |->
                     CASE c = FirstNode -> El("div", {"content"}, "")
                       [] c = ImageNode -> El("script", {}, "")
                       [] c = LinkNode -> third
                       [] OTHER -> El("div", {}, "")],
     url |-> url,
     htmd |-> converted]

SomeMarkdown ==
    [ok |-> TRUE,
     md |-> <<"[", "a", "\n", "]", "[", "Skip to Content", "]", "(", "#", ")", "a">>]

\* Pages: one htmd converts, one it does not, one whose url is no base URL,
\* one with a srcset descriptor that ends in a character of several bytes.
PageChoices ==
    { Page(El("div", {"ad"}, ""), BaseUrl, SomeMarkdown),
      Page(El("div", {"ad"}, ""), BaseUrl, [ok |-> FALSE, md |-> <<>>]),
      Page(El("div", {"ad"}, ""), NotAUrl, SomeMarkdown),
      Page([El("img", {}, "") EXCEPT
               !.srcset = <<Entry(SrcsetUrl(1), TRUE, Token(TRUE, 2, "multibyte"))>>],
           BaseUrl, SomeMarkdown) }

PagesChoices(op) ==
    CASE op = "scrape" -> [1..1 -> PageChoices]
      [] op = "crawl" -> UNION { [1..n -> PageChoices] : n \in 0..MaxPages }
      [] OTHER -> { <<>> }

\* What the host can answer: the exit code, the bytes written, whether
\* these parse as the response type, the response's error and pages.
Replies(op) ==
    { r \in [code : {0, 2}, bytes_written : {0, 1, BufferSize(op) + 1},
             parses : BOOLEAN, error : {"", "boom"}, pages : { <<>> }] :
          ~(r.code = 0 /\ r.bytes_written = 1 /\ r.parses /\ r.error = "") }
    \cup { [code |-> 0, bytes_written |-> 1, parses |-> TRUE, error |-> "", pages |-> ps] :
               ps \in PagesChoices(op) }

\* What the host can leave in the handle it is given a pointer to.
HandleChoices == {0, 7}

\* The checks of the host's answer, in the order of the code: "Ok" or the
\* error kind.
CheckReply(op, reply) ==
    IF reply.code # 0 THEN FromCode(reply.code)
    ELSE IF reply.bytes_written = 0 THEN "EmptyResponse"
    ELSE IF reply.bytes_written > BufferSize(op) THEN "MemoryError"
    ELSE IF ~reply.parses THEN "ParseError"
    ELSE IF reply.error # "" THEN "RuntimeError"
    ELSE "Ok"

\* The host call returns; with a good answer map is done, scrape and crawl
\* start on the first page.
HostReply ==
    /\ pc = "host"
    /\ \E reply \in Replies(call.op), h \in HandleChoices :
          /\ call' = [call EXCEPT !.reply = reply, !.handle = h]
          /\ IF CheckReply(call.op, reply) # "Ok"
             THEN /\ outcome' = Err(CheckReply(call.op, reply))
                  /\ pc' = "returned"
                  /\ UNCHANGED <<opts, document, kids, data, idx, base_url, result,
                                 html, htmd, markdown, pages>>
             ELSE IF reply.pages = <<>>
             THEN /\ outcome' = Ok(<<>>)
                  /\ pc' = "returned"
                  /\ UNCHANGED <<opts, document, kids, data, idx, base_url, result,
                                 html, htmd, markdown, pages>>
             ELSE /\ pages' = reply.pages
                  /\ LoadPage(reply.pages[1], call.config)
                  /\ UNCHANGED outcome
    /\ UNCHANGED <<markdown_content, crawler, host, contents, client>>

format_content_json_as_html(format, content, converted) ==
    CASE format = "Markdown" -> [ok |-> TRUE, content |-> parse_markdown(content, converted)]
      [] OTHER -> [ok |-> TRUE, content |-> content]

\* match config.format { Markdown => parse_markdown, Html => (),
\* Json => unimplemented!() }
format_content(format, content, converted) ==
    CASE format = "Markdown" -> [ok |-> TRUE, content |-> parse_markdown(content, converted)]
      [] format = "Html" -> [ok |-> TRUE, content |-> content]
      [] OTHER -> [ok |-> FALSE, content |-> <<>>]

\* transform_html has returned for the page at the head of pages: its
\* error ends the call, its content is post-processed by format; then the
\* next page is taken up or the call returns.
PostProcess ==
    /\ pc = "done"
    /\ call.op \in {"scrape", "crawl"}
    /\ LET format == IF call.op = "crawl" THEN crawler.config.format ELSE call.config.format
           formatted == format_content(format, result.content, htmd)
       IN  IF result.status # "Ok" \/ ~formatted.ok
           THEN /\ outcome' = CASE result.status = "Err" -> Err("TransformError")
                                [] result.status = "Panic" -> Panic
                                [] OTHER -> NotImplemented
                /\ pc' = "returned"
                /\ UNCHANGED <<opts, document, kids, data, idx, base_url, result,
                               html, htmd, markdown, pages, contents>>
           ELSE /\ contents' = Append(contents, formatted.content)
                /\ pages' = Tail(pages)
                /\ IF Tail(pages) = <<>>
                   THEN /\ outcome' = Ok(Append(contents, formatted.content))
                        /\ pc' = "returned"
                        /\ html' = IF format = "Markdown" THEN result.content ELSE html
                        /\ markdown' = IF format = "Markdown" THEN formatted.content ELSE markdown
                        /\ UNCHANGED <<opts, document, kids, data, idx, base_url, result, htmd>>
                   ELSE /\ LoadPage(pages[2], IF call.op = "crawl" THEN crawler.config
                                               ELSE call.config)
                        /\ UNCHANGED outcome
    /\ UNCHANGED <<markdown_content, crawler, call, host, client>>

NextCrawl ==
    \/ WithConfig
    \/ Scrape
    \/ Map
    \/ Crawl
    \/ HostReply
    \/ IncludeTags
    \/ RemoveUnwanted
    \/ RemoveExcluded
    \/ RemoveNonMain
    \/ ProcessSrcset
    \/ ParseBaseUrl
    \/ AbsolutizeImages
    \/ AbsolutizeAnchors
    \/ PostProcess

\* An instance from BlessCrawl::default(), or a with_config call with any
\* of the configurations.
InitCrawl ==
    /\ NoTransform
    /\ NoMarkdown
    /\ host = <<>>
    /\ pages = <<>>
    /\ contents = <<>>
    /\ outcome = Running
    /\ client = [next_id |-> 0, buffer_size |-> 0]
    /\ \/ /\ pc = "ready"
          /\ crawler = [inner |-> 0, config |-> DefaultOptions]
          /\ call = [op |-> "default", options |-> None, config |-> None,
                     reply |-> None, handle |-> 0]
       \/ /\ pc = "with_config"
          /\ crawler = [inner |-> 0, config |-> None]
          /\ \E config \in OptionChoices :
                call = [op |-> "with_config", options |-> config, config |-> None,
                        reply |-> None, handle |-> 0]

SpecCrawl == InitCrawl /\ [][NextCrawl]_vars

\* The instance is dropped and closes the host handle in any case.
DropAlwaysCloses ==
    /\ pc \in {"ready", "returned"}
    /\ pc' = "dropped"
    /\ host' = Append(host, Request("close", crawler.inner))
    /\ UNCHANGED <<opts, document, kids, data, idx, base_url, result>>
    /\ UNCHANGED <<html, htmd, markdown_content, markdown, crawler, call, pages,
                   contents, outcome, client>>

\* impl Drop for BlessCrawl: the instance goes out of scope, in the caller
\* or in with_config when validation failed; close is called unless the
\* handle is 0.
Drop ==
    /\ pc \in {"ready", "returned"}
    /\ pc' = "dropped"
    /\ host' = IF crawler.inner = 0 THEN host
               ELSE Append(host, Request("close", crawler.inner))
    /\ UNCHANGED <<opts, document, kids, data, idx, base_url, result>>
    /\ UNCHANGED <<html, htmd, markdown_content, markdown, crawler, call, pages,
                   contents, outcome, client>>

\* A method has returned to its caller, who holds the instance (&self) as
\* it was and may call again; of the call its record is left.
Return ==
    /\ pc = "returned"
    /\ call.op \in {"scrape", "map", "crawl"}
    /\ pc' = "ready"
    /\ opts' = [html |-> [kids |-> [n \in Nodes |-> <<>>],
                          data |-> [n \in Nodes |-> El("#document", {}, "")]],
                url |-> NoAttr, include_tags |-> <<>>, exclude_tags |-> <<>>,
                only_main_content |-> FALSE]
    /\ document' = DocumentNode
    /\ kids' = [n \in Nodes |-> <<>>]
    /\ data' = [n \in Nodes |-> El("#document", {}, "")]
    /\ idx' = 1
    /\ base_url' = NoAttr
    /\ result' = Running
    /\ html' = <<>>
    /\ htmd' = [ok |-> FALSE, md |-> <<>>]
    /\ markdown' = <<>>
    /\ host' = <<>>
    /\ pages' = <<>>
    /\ contents' = <<>>
    /\ outcome' = Running
    /\ UNCHANGED <<markdown_content, crawler, call, client>>

\* The life of an instance: construction, any number of calls, drop.
NextHandle ==
    \/ NextCrawl
    \/ Return
    \/ Drop

SpecHandle == InitCrawl /\ [][NextHandle]_vars

-----------------------------------------------------------------------------
(* The RPC client (rpc.rs): call builds a request with the id next_id,     *)
(* increments next_id, serializes the request, calls the host and reads    *)
(* the response; ping, echo and version go through call.  next_id is a    *)
(* u32; its width is scaled down to IdBits bits, so that the largest id    *)
(* is reached after a few calls.  Adding 1 to the largest id panics in a   *)
(* build with overflow checks and wraps to 0 in a build without.           *)

IdBits == 2
IdLimit == 2 ^ IdBits
IdMax == IdLimit - 1

\* RpcClient::with_buffer_size(buffer_size)
with_buffer_size(buffer_size) == [next_id |-> 1, buffer_size |-> buffer_size]

\* RpcClient::default()
DefaultClient == with_buffer_size(4096)

\* What `self.next_id += 1` can do: leave a value in next_id, or panic on
\* overflow.
Increment(id) ==
    IF id < IdMax THEN { [panics |-> FALSE, value |-> id + 1] }
    ELSE { [panics |-> TRUE, value |-> id], [panics |-> FALSE, value |-> 0] }

\* The requests a client builds before the model stops it.
MaxRequests == IdLimit + 1

Methods == {"call", "ping", "echo", "version"}

\* No method of the client is running.
NoRpcCall == [op |-> "none", id |-> 0, serializes |-> TRUE]

\* call(method, params) up to the increment of next_id; ping and version
\* pass no params, call and echo pass params that serialize or do not.
RpcCall ==
    /\ pc = "rpc_idle"
    /\ Len(host) < MaxRequests
    /\ \E method \in Methods, serializes \in BOOLEAN, next \in Increment(client.next_id) :
          /\ (method \in {"ping", "version"}) => serializes
          /\ call' = [op |-> method, id |-> client.next_id, serializes |-> serializes]
          /\ host' = Append(host, [op |-> "rpc_call", id |-> client.next_id,
                                   serializes |-> serializes])
          /\ IF next.panics
             THEN /\ pc' = "rpc_returned"
                  /\ outcome' = Panic
                  /\ UNCHANGED client
             ELSE /\ pc' = "rpc_request"
                  /\ outcome' = Running
                  /\ client' = [client EXCEPT !.next_id = next.value]
    /\ UNCHANGED <<opts, document, kids, data, idx, base_url, result>>
    /\ UNCHANGED <<html, htmd, markdown_content, markdown, crawler, pages, contents>>

\* serde_json::to_vec(&request) and the host call.
RpcSend ==
    /\ pc = "rpc_request"
    /\ IF call.serializes
       THEN /\ pc' = "rpc_host"
            /\ UNCHANGED outcome
       ELSE /\ outcome' = Err("InvalidJson")
            /\ pc' = "rpc_returned"
    /\ UNCHANGED <<opts, document, kids, data, idx, base_url, result>>
    /\ UNCHANGED <<html, htmd, markdown_content, markdown, crawler, call, host, pages,
                   contents, client>>

\* The error of a non-zero result of rpc_call.
RpcErrorOf(code) ==
    CASE code = 1 -> "InvalidJson"
      [] code = 2 -> "MethodNotFound"
      [] code = 3 -> "InvalidParams"
      [] code = 4 -> "InternalError"
      [] code = 5 -> "BufferTooSmall"
      [] OTHER -> "InternalError"

\* What the host can answer: the result of rpc_call, whether the bytes
\* parse as a JsonRpcResponse, the response's id and whether it has a
\* result.
RpcReplies ==
    [code : 0..6, parses : BOOLEAN, id : 0..IdMax, has_result : BOOLEAN]

\* rpc_call returns: the mapped error, InvalidJson for a response that
\* does not parse, otherwise the response, of which ping, echo and version
\* return the result.
RpcReply ==
    /\ pc = "rpc_host"
    /\ \E reply \in RpcReplies :
          outcome' = IF reply.code # 0 THEN Err(RpcErrorOf(reply.code))
                     ELSE IF ~reply.parses THEN Err("InvalidJson")
                     ELSE IF call.op # "call" /\ ~reply.has_result THEN Err("InternalError")
                     ELSE Ok([id |-> reply.id, has_result |-> reply.has_result])
    /\ pc' = "rpc_returned"
    /\ UNCHANGED <<opts, document, kids, data, idx, base_url, result>>
    /\ UNCHANGED <<html, htmd, markdown_content, markdown, crawler, call, host, pages,
                   contents, client>>

\* The method has returned to its caller, who holds the client and may
\* call again; the request and the result are gone.
RpcReturn ==
    /\ pc = "rpc_returned"
    /\ outcome # Panic
    /\ pc' = "rpc_idle"
    /\ call' = NoRpcCall
    /\ outcome' = Running
    /\ UNCHANGED <<opts, document, kids, data, idx, base_url, result>>
    /\ UNCHANGED <<html, htmd, markdown_content, markdown, crawler, host, pages,
                   contents, client>>

NextRpc ==
    \/ RpcCall
    \/ RpcSend
    \/ RpcReply
    \/ RpcReturn

\* A client from RpcClient::new() before its first call.
InitRpc ==
    /\ NoTransform
    /\ NoMarkdown
    /\ crawler = [inner |-> 0, config |-> <<>>]
    /\ call = NoRpcCall
    /\ host = <<>>
    /\ pages = <<>>
    /\ contents = <<>>
    /\ outcome = Running
    /\ client = DefaultClient
    /\ pc = "rpc_idle"

SpecRpc == InitRpc /\ [][NextRpc]_vars

-----------------------------------------------------------------------------
(* Format (mod.rs): Display::fmt formats self.to_string().to_lowercase(),  *)
(* and to_string is the ToString that every Display type gets, which       *)
(* calls Display::fmt: each fmt opens another fmt on the same value until  *)
(* the stack is used up.  The write! of the lowercased name comes after    *)
(* to_string has returned, which no call does.  from_str matches its       *)
(* argument against the three lowercase names.                             *)

Formats == {"Markdown", "Html", "Json"}

\* The fmt frames the stack has room for.
MaxStack == 32

StackOverflow == [status |-> "StackOverflow", err |-> "", content |-> <<>>]

\* The arguments of from_str: the three names, and strings that differ
\* from them in case, by a blank, or altogether.
FormatStrings ==
    {"markdown", "html", "json", "Markdown", "HTML", "Json", "json ", "", "xml", "md"}

\* Format::from_str(s)
from_str(s) ==
    CASE s = "markdown" -> Ok("Markdown")
      [] s = "html" -> Ok("Html")
      [] s = "json" -> Ok("Json")
      [] OTHER -> Err("()")

\* f.to_string(): ToString::to_string calls Display::fmt.
to_string ==
    /\ pc = "format_ready"
    /\ call.op = "to_string"
    /\ pc' = "fmt"
    /\ call' = [call EXCEPT !.depth = 1]
    /\ UNCHANGED <<opts, document, kids, data, idx, base_url, result>>
    /\ UNCHANGED <<html, htmd, markdown_content, markdown, crawler, host, pages,
                   contents, outcome, client>>

\* Display::fmt: its first step is self.to_string(), which enters fmt
\* again on a new frame, or finds the stack full.
Fmt ==
    /\ pc = "fmt"
    /\ IF call.depth < MaxStack
       THEN /\ call' = [call EXCEPT !.depth = call.depth + 1]
            /\ UNCHANGED <<pc, outcome>>
       ELSE /\ outcome' = StackOverflow
            /\ pc' = "format_returned"
            /\ UNCHANGED call
    /\ UNCHANGED <<opts, document, kids, data, idx, base_url, result>>
    /\ UNCHANGED <<html, htmd, markdown_content, markdown, crawler, host, pages,
                   contents, client>>

\* Format::from_str(s)
FromStr ==
    /\ pc = "format_ready"
    /\ call.op = "from_str"
    /\ outcome' = from_str(call.arg)
    /\ pc' = "format_returned"
    /\ UNCHANGED <<opts, document, kids, data, idx, base_url, result>>
    /\ UNCHANGED <<html, htmd, markdown_content, markdown, crawler, call, host, pages,
                   contents, client>>

NextFormat ==
    \/ to_string
    \/ Fmt
    \/ FromStr

\* to_string on any Format, from_str on any of the strings.
InitFormat ==
    /\ NoTransform
    /\ NoMarkdown
    /\ crawler = [inner |-> 0, config |-> <<>>]
    /\ host = <<>>
    /\ pages = <<>>
    /\ contents = <<>>
    /\ outcome = Running
    /\ client = [next_id |-> 0, buffer_size |-> 0]
    /\ pc = "format_ready"
    /\ call \in { [op |-> "to_string", arg |-> f, depth |-> 0] : f \in Formats }
               \cup { [op |-> "from_str", arg |-> s, depth |-> 0] : s \in FormatStrings }

\* The calls run without waiting for anything.
SpecFormat == InitFormat /\ [][NextFormat]_vars /\ WF_vars(NextFormat)

-----------------------------------------------------------------------------
(* Properties of the pruning steps.                                        *)

Returned == result.status = "Ok"
Output == Reachable(kids, document)
Input == Reachable(opts.html.kids, DocumentNode)

\* m is n or an ancestor of n in the tree k.
Encloses(k, m, n) == n \in Reachable(k, m)

MatchesAny(e, selectors) == \E i \in DOMAIN selectors : Matches(e, selectors[i])

UnwantedTags == {"head", "meta", "noscript", "style", "script"}

\* C1: a returned document holds no head, meta, noscript, style or script
\* element, whatever the input and the options, also when the element was
\* moved in by include_tags.
C1_NoUnwantedElement ==
    Returned => \A n \in Output : data[n].tag \notin UnwantedTags

\* C1's case: a script with a script sibling and a script nested in it, all
\* three pulled in by include_tags, and the call returned.
C1_Witness ==
    /\ Returned
    /\ opts.include_tags = <<TagSel("div"), TagSel("script")>>
    /\ \E a, b, c \in ContentNodes :
          /\ a # c
          /\ \A n \in {a, b, c} : opts.html.data[n].tag = "script"
          /\ {a, c} \subseteq Range(opts.html.kids[BodyNode])
          /\ b \in Range(opts.html.kids[a])

\* The input nodes an include selector matches, and the nodes inside them.
IncludeMatched ==
    UNION { Reachable(opts.html.kids, m) :
              m \in { x \in Input : MatchesAny(opts.html.data[x], opts.include_tags) } }

OnlyIncluded == Output \subseteq (Scaffold \cup IncludeMatched)

\* C2: with include_tags non-empty a returned document holds, besides the
\* wrapper scaffold, only nodes an include selector matched and nodes inside
\* them; with include_tags empty the include step changes nothing.
C2_IncludeOnlyMatched ==
    /\ []((Returned /\ opts.include_tags # <<>>) => OnlyIncluded)
    /\ [][(pc = "include" /\ opts.include_tags = <<>>) =>
               /\ kids' = kids /\ data' = data /\ document' = document
               /\ pc' = "unwanted"]_vars

\* C2's case: .content was asked for, the input holds a .content element
\* that is in the output and a body-level element outside every match that
\* is not.
C2_Witness ==
    /\ Returned
    /\ opts.include_tags = <<ClassSel("content")>>
    /\ \E a, b \in ContentNodes :
          /\ "content" \in opts.html.data[a].class /\ a \in Output
          /\ opts.html.data[b].tag = "div" /\ b \notin IncludeMatched /\ b \notin Output
          /\ b \in Range(opts.html.kids[BodyNode])

ValidExcludes == SelectSeq(opts.exclude_tags, SelectorOk)

\* The nodes of the working document that match an exclude selector, and the
\* nodes inside them.
InsideExcluded ==
    UNION { Reachable(kids, m) :
              m \in { x \in Output : MatchesAny(data[x], ValidExcludes) } }

-----------------------------------------------------------------------------
(* Properties of the main-content filter.                                  *)

NonMain(n) == MatchesAny(data[n], EXCLUDE_NON_MAIN_TAGS)

\* A force-include element is n or inside n / is strictly inside n.
ForceIn(k, n) ==
    \E m \in Reachable(k, n) : MatchesAny(data[m], FORCE_INCLUDE_MAIN_TAGS)
ForceBelow(k, n) ==
    \E m \in Reachable(k, n) \ {n} : MatchesAny(data[m], FORCE_INCLUDE_MAIN_TAGS)

\* C4 as claimed: the main-content step removes a non-main element exactly
\* when no descendant of it matches a force-include selector, and removes
\* nothing when only_main_content is false.
C4_AsClaimed ==
    [][pc = "main" =>
           IF opts.only_main_content
           THEN LET after == Output'
                IN  \A n \in Output :
                        NonMain(n) => ((n \notin after) <=> ~ForceBelow(kids, n))
           ELSE kids' = kids /\ data' = data]_vars

\* C4 as amended: the main-content step removes a non-main element exactly
\* when neither the element itself nor a descendant of it matches a
\* force-include selector, and removes nothing when only_main_content is
\* false.
C4_DetachedIffNoForceInclude ==
    [][pc = "main" =>
           IF opts.only_main_content
           THEN LET after == Output'
                IN  \A n \in Output :
                        NonMain(n) => ((n \notin after) <=> ~ForceIn(kids, n))
           ELSE kids' = kids /\ data' = data]_vars

\* C4's case: the filter ran on a document with a .widget#main element
\* without descendants, which it kept, and a .widget element without any
\* force-include element, which it removed.
C4_Witness ==
    /\ pc = "srcset"
    /\ opts.only_main_content
    /\ opts.exclude_tags = <<>>
    /\ \E a, b \in ContentNodes :
          /\ opts.html.data[a] = El("div", {"widget"}, "main")
          /\ opts.html.kids[a] = <<>>
          /\ a \in Output
          /\ opts.html.data[b] = El("div", {"widget"}, "")
          /\ b \notin Output

\* C5 as claimed: a non-main element kept for a force-include descendant
\* keeps its whole subtree.
C5_AsClaimed ==
    [][(pc = "main" /\ opts.only_main_content) =>
           LET after == Output'
           IN  \A e \in Output :
                   (NonMain(e) /\ ForceBelow(kids, e)) =>
                       \A n \in Reachable(kids, e) :
                           n \in after /\ kids'[n] = kids[n]]_vars

\* The nodes of e's subtree that are, or lie inside, a non-main element
\* without any force-include element.
Noise(k, e) ==
    UNION { Reachable(k, a) :
              a \in { x \in Reachable(k, e) : NonMain(x) /\ ~ForceIn(k, x) } }

\* C5 as amended: a non-main element kept for a force-include descendant
\* stays where it is, and of its subtree exactly the nodes stay that neither
\* are nor lie inside a non-main element without force-include element; the
\* children of a node that stays keep their order.
C5_KeptSubtreeLosesOnlyNoise ==
    [][(pc = "main" /\ opts.only_main_content) =>
           LET after == Output'
           IN  \A e \in Output :
                   (NonMain(e) /\ ForceBelow(kids, e)) =>
                       /\ e \in after
                       /\ \A m \in Nodes : (e \in Range(kids[m])) = (e \in Range(kids'[m]))
                       /\ Reachable(kids, e) \cap after = Reachable(kids, e) \ Noise(kids, e)
                       /\ \A n \in Reachable(kids, e) \ Noise(kids, e) :
                              kids'[n] = SelectSeq(kids[n],
                                             LAMBDA c : c \notin Noise(kids, e))]_vars

\* C5's case: the filter ran on a .widget element holding a #main element
\* and a .widget element without force-include element; the first two are
\* in the document, the third is not.
C5_Witness ==
    /\ pc = "srcset"
    /\ opts.only_main_content
    /\ opts.exclude_tags = <<>>
    /\ \E e, m, n \in ContentNodes :
          /\ opts.html.data[e] = El("div", {"widget"}, "")
          /\ opts.html.data[m] = El("div", {}, "main")
          /\ opts.html.data[n] = El("div", {"widget"}, "")
          /\ opts.html.kids[e] = <<m, n>>
          /\ {e, m} \subseteq Output
          /\ n \notin Output

-----------------------------------------------------------------------------
(* Properties of srcset resolution and URL absolutization.                 *)
(* The candidates are read here off the srcset as the documentation reads  *)
(* it: an entry counts when it has no descriptor (then it is "1x") or the  *)
(* number of its descriptor parses; its unit is the descriptor's last      *)
(* character.                                                              *)

Counts(entry) == ~entry.has_desc \/ entry.token.parses
SizeOf(entry) == IF entry.has_desc THEN entry.token.n ELSE 1
DensityForm(entry) == ~entry.has_desc \/ entry.token.last = "x"

\* The srcset entries of e that count, in their order.
Declared(e) == SelectSeq(e.srcset, Counts)

\* The urls of the entries of maximal size among the sequence c of entries.
Largest(c) ==
    {c[i].url : i \in {i \in DOMAIN c : \A j \in DOMAIN c : SizeOf(c[j]) <= SizeOf(c[i])}}

\* The src of e as an entry "<src> 1x".
SrcEntry(e) == Entry(e.src, FALSE, DefaultToken)

\* The first of the largest entries of c.
FirstLargest(c) ==
    c[CHOOSE i \in DOMAIN c :
          /\ \A j \in DOMAIN c : SizeOf(c[j]) <= SizeOf(c[i])
          /\ \A j \in 1..(i - 1) : SizeOf(c[j]) < SizeOf(c[i])]

\* What joining r to the base https://host/dir/ is expected to give: an
\* absolute reference as it is, a root-relative one on the origin, a
\* path-relative one in the base's directory, the empty one the base; a
\* reference that cannot be joined stays as it was written.
Resolved(base, r) ==
    CASE r.k = "abs" -> r
      [] r.k = "root" -> [k |-> "abs", origin |-> base.origin, path |-> r.path]
      [] r.k = "rel" -> [k |-> "abs", origin |-> base.origin,
                         path |-> SubSeq(base.path, 1, Len(base.path) - 1) \o r.path]
      [] r.k = "empty" -> base
      [] OTHER -> r

IsSrcsetImage(e) == e.tag = "img" /\ e.srcset # <<>>

\* C6: a call that does not return an error returns a document in which
\* every img that carried a srcset has the url of a largest counted srcset
\* entry as its src (in absolute form, C8), a missing descriptor counting
\* as 1x, entries without a number left out, sizes compared whatever the
\* unit; its srcset is the one it came with.
C6_AsClaimed ==
    pc = "done" /\ result.status # "Err" =>
        /\ Returned
        /\ \A n \in Output :
              LET was == opts.html.data[n]
              IN  IsSrcsetImage(was) =>
                      /\ data[n].srcset = was.srcset
                      /\ Declared(was) # <<>> =>
                            \E u \in Largest(Declared(was)) :
                                data[n].src = Resolved(base_url, u)

\* C7 as claimed: when the srcset step has run, (1) the src of an img takes
\* part as "<src> 1x" exactly when the img has a src and all counted
\* entries are density-form: the new src is the first of the largest among
\* the counted entries and, in that case, the src; (2) with a counted
\* density-form entry the new src is never the original src; (3) with a
\* counted width-form entry it is the url of a srcset entry.
C7_AsClaimed ==
    [][pc = "srcset" /\ pc' = "base" =>
          LET after == data'
          IN  \A n \in Output :
                 LET e == data[n]
                     c == Declared(e)
                     takes_part == e.src # NoAttr /\ \A i \in DOMAIN c : DensityForm(c[i])
                     all == IF takes_part THEN Append(c, SrcEntry(e)) ELSE c
                 IN  IsSrcsetImage(e) =>
                        /\ after[n] = IF all = <<>> THEN e
                                      ELSE [e EXCEPT !.src = FirstLargest(all).url]
                        /\ (\E i \in DOMAIN c : DensityForm(c[i])) /\ e.src # NoAttr
                              => after[n].src # e.src
                        /\ (\E i \in DOMAIN c : ~DensityForm(c[i]))
                              => after[n].src \in {c[i].url : i \in DOMAIN c}]_vars

\* C7, amended in (2): with a counted density-form entry of size 1 or more
\* the new src is never the original src (an entry "1x" sorts before the
\* src, which is added last); a srcset whose density-form entries are all
\* below 1 does leave the original src in place.
C7_SrcIsImplicitCandidate ==
    [][pc = "srcset" /\ pc' = "base" =>
          LET after == data'
          IN  \A n \in Output :
                 LET e == data[n]
                     c == Declared(e)
                     takes_part == e.src # NoAttr /\ \A i \in DOMAIN c : DensityForm(c[i])
                     all == IF takes_part THEN Append(c, SrcEntry(e)) ELSE c
                 IN  IsSrcsetImage(e) =>
                        /\ after[n] = IF all = <<>> THEN e
                                      ELSE [e EXCEPT !.src = FirstLargest(all).url]
                        /\ (\E i \in DOMAIN c : DensityForm(c[i]) /\ SizeOf(c[i]) >= 1)
                              /\ e.src # NoAttr
                              => after[n].src # e.src
                        /\ e.src # NoAttr
                              /\ (\A i \in DOMAIN c : DensityForm(c[i]) /\ SizeOf(c[i]) < 1)
                              => after[n].src = e.src
                        /\ (\E i \in DOMAIN c : ~DensityForm(c[i]))
                              => after[n].src \in {c[i].url : i \in DOMAIN c}]_vars

\* C7's cases: the srcset step has run on <img srcset="small.jpg 0x"
\* src="default.jpg"> and src is still default.jpg: it took part and was the
\* largest.
C7_Witness ==
    /\ pc = "base"
    /\ opts.html.data[ImageNode].srcset = <<Entry(SrcsetUrl(1), TRUE, Token(TRUE, 0, "x"))>>
    /\ opts.html.data[ImageNode].src = DefaultSrc
    /\ data[ImageNode].src = DefaultSrc

\* C8: in a returned document the src of an img with srcset whose chosen
\* candidate was a relative srcset url (path-relative, root-relative or
\* empty) is that url made absolute on the base, never the relative url: the
\* srcset step comes before the absolutization of img src.
C8_ChosenCandidateIsAbsolutized ==
    Returned =>
        \A n \in Output :
           LET was == opts.html.data[n]
               c == Declared(was)
               takes_part == was.src # NoAttr /\ \A i \in DOMAIN c : DensityForm(c[i])
               all == IF takes_part THEN Append(c, SrcEntry(was)) ELSE c
           IN  IsSrcsetImage(was) /\ all # <<>> =>
                  LET chosen == FirstLargest(all).url
                  IN  chosen.k \in {"rel", "root", "empty"} =>
                         /\ data[n].src.k = "abs"
                         /\ data[n].src.origin = opts.url.origin
                         /\ data[n].src = Resolved(opts.url, chosen)
                         /\ data[n].src # chosen

\* C8's case: <img srcset="small.jpg 2x, /large.jpg 3w"> on the base
\* https://example.com/subdir/ comes out with src
\* https://example.com/large.jpg.
C8_Witness ==
    /\ Returned
    /\ opts.html.data[ImageNode].srcset =
           << Entry(SrcsetUrl(1), TRUE, Token(TRUE, 2, "x")),
              Entry(SrcsetUrl(2), TRUE, Token(TRUE, 3, "w")) >>
    /\ data[ImageNode].src = AbsUrl("https://example.com", <<"large.jpg">>)

\* C9: with a base URL that parses, the img step writes to the src of every
\* img of the document that has one the join of the base and the value it
\* had (root-relative on the origin, not in the base's directory; a value
\* that cannot be joined stays, and the images after it are still written),
\* the link step does the same to the href of every a, and neither writes
\* anything else; so in a returned document only img src and a href differ
\* from the input, and these are absolute or were not joinable.
C9_JoinPerElement ==
    /\ [](Returned =>
            \A n \in Output :
               LET was == opts.html.data[n]
               IN  /\ was.tag \notin {"img", "a"} => data[n] = was
                   /\ was.tag = "a" =>
                         data[n] = [was EXCEPT !.href = Resolved(opts.url, was.href)]
                   /\ was.tag = "img" =>
                         /\ [data[n] EXCEPT !.src = was.src] = was
                         /\ was.srcset = <<>> => data[n].src = Resolved(opts.url, was.src)
                         /\ data[n].src.k \in {"none", "abs", "bad"})
    /\ [][pc = "img" =>
             LET after == data'
             IN  \A n \in Nodes :
                    after[n] = IF n \in Output /\ data[n].tag = "img"
                               THEN [data[n] EXCEPT !.src = Resolved(opts.url, data[n].src)]
                               ELSE data[n]]_vars
    /\ [][pc = "anchor" =>
             LET after == data'
             IN  \A n \in Nodes :
                    after[n] = IF n \in Output /\ data[n].tag = "a"
                               THEN [data[n] EXCEPT !.href = Resolved(opts.url, data[n].href)]
                               ELSE data[n]]_vars

\* C9's case: on the base https://example.com/subdir/ the document
\* <img src=(not joinable)><img src="default.jpg"><a href="/page"> comes out
\* with the first src as written, the second
\* https://example.com/subdir/default.jpg, the href https://example.com/page.
C9_Witness ==
    /\ Returned
    /\ opts.html.data[FirstNode].tag = "img"
    /\ opts.html.data[ImageNode] = [El("img", {}, "") EXCEPT !.src = DefaultSrc]
    /\ opts.html.data[LinkNode].href = RootRef(<<"page">>)
    /\ data[FirstNode].src = BadRef
    /\ data[ImageNode].src = AbsUrl("https://example.com", <<"subdir", "default.jpg">>)
    /\ data[LinkNode].href = AbsUrl("https://example.com", <<"page">>)

\* C10: a call with a url that is no base URL, and selectors that all parse,
\* ends with Err(UrlParseError) and no content, whatever the document.
C10_AsClaimed ==
    /\ pc = "done"
    /\ opts.url.k # "abs"
    /\ \A i \in DOMAIN opts.include_tags : opts.include_tags[i].kind # "invalid"
    => result = [status |-> "Err", err |-> "UrlParseError", content |-> <<>>]

-----------------------------------------------------------------------------
(* Properties of the options and of the order of the steps.                *)

HasBadSelector(selectors) ==
    \E i \in DOMAIN selectors : selectors[i].kind = "invalid"

\* C11: a call whose include_tags or exclude_tags hold a selector that does
\* not parse ends with Err(SelectError): it neither panics nor returns Ok
\* with content.
C11_AsClaimed ==
    /\ pc = "done"
    /\ HasBadSelector(opts.include_tags) \/ HasBadSelector(opts.exclude_tags)
    => result = [status |-> "Err", err |-> "SelectError", content |-> <<>>]

-----------------------------------------------------------------------------
(* Properties of the Markdown post-processing.                             *)

\* C12: parse_markdown returns the empty string for the empty html and for
\* an html htmd cannot convert; it always returns (a String, no error).
C12_EmptyOnEmptyOrFailure ==
    [][pc = "parse_markdown" =>
          /\ pc' = "returned"
          /\ html = <<>> \/ ~htmd.ok => markdown' = <<>>]_vars

\* C12's case: parse_markdown has returned "" for a non-empty html that htmd
\* failed to convert.
C12_Witness ==
    /\ pc = "returned"
    /\ html # <<>>
    /\ ~htmd.ok
    /\ markdown = <<>>

\* The "[" less the "]" among the first i characters of text.
Balance(text, i) ==
    Cardinality({j \in 1..i : text[j] = "["}) - Cardinality({j \in 1..i : text[j] = "]"})

\* The nesting counter behind character i: it follows the balance but is
\* held at zero, so it is the balance above its lowest value so far.
Depth(text, i) ==
    LET lowest == CHOOSE b \in {Balance(text, j) : j \in 0..i} :
                      \A j \in 0..i : b <= Balance(text, j)
    IN  Balance(text, i) - lowest

\* text with a backslash put in front of every newline of positive depth.
Escaped(text) ==
    Flatten([i \in 1..Len(text) |->
                IF text[i] = "\n" /\ Depth(text, i) > 0
                THEN <<"\\", "\n">> ELSE <<text[i]>>])

\* C13: process_multiline_links returns its argument with every newline at
\* which the nesting counter ("[" up, "]" down but not below zero) is above
\* zero replaced by backslash-newline, and every other character as it
\* was, in order.
C13_EscapesNewlinesInsideBrackets ==
    [][pc = "process_multiline_links" => markdown' = Escaped(markdown_content)]_vars

\* C13's case: in "][\n]\n" the "]" in front does not make the counter
\* negative: the newline inside the brackets is escaped, the one behind not.
C13_Witness ==
    /\ pc = "returned"
    /\ markdown_content = <<"]", "[", "\n", "]">>
    /\ markdown = <<"]", "[", "\\", "\n", "]">>

\* A skip link [Skip to Content](#fragment), in either spelling, starts at
\* character i of text.
SkipLinkAt(text, i) ==
    /\ i + 5 <= Len(text)
    /\ text[i] = "["
    /\ text[i + 1] \in {"Skip to Content", "Skip to content"}
    /\ text[i + 2] = "]"
    /\ text[i + 3] = "("
    /\ text[i + 4] = "#"
    /\ \E j \in (i + 5)..Len(text) : text[j] = ")"

\* The characters of the skip links of text: from a "[" where one starts to
\* the first ")" behind its "(#".
InSkipLink(text) ==
    {i \in 1..Len(text) :
        \E b \in 1..i : /\ SkipLinkAt(text, b)
                        /\ \E j \in (b + 5)..Len(text) :
                              /\ text[j] = ")"
                              /\ i <= j
                              /\ \A m \in (b + 5)..(j - 1) : text[m] # ")"}

WithoutSkipLinks(text) ==
    Flatten([i \in 1..Len(text) |-> IF i \in InSkipLink(text) THEN <<>> ELSE <<text[i]>>])

\* C14 as claimed: what remove_skip_to_content_links, and so parse_markdown,
\* returns holds no skip link, whatever the text.
C14_AsClaimed ==
    [][(pc = "remove_skip_to_content_links" \/ pc = "parse_markdown") =>
          (LET returned == markdown'
           IN  \A i \in 1..Len(returned) : ~SkipLinkAt(returned, i))]_vars

\* C14, amended: remove_skip_to_content_links returns its argument without
\* the characters of its skip links, every one of them and nothing else
\* (parse_markdown: those of the converted and escaped text); the removal
\* is one pass, so a skip link can be left where two parts of the text
\* met over a removed one.
C14_RemovesEverySkipLinkOfTheInput ==
    /\ [][pc = "remove_skip_to_content_links" =>
             markdown' = WithoutSkipLinks(markdown_content)]_vars
    /\ [][pc = "parse_markdown" /\ html # <<>> /\ htmd.ok =>
             markdown' = WithoutSkipLinks(Escaped(htmd.md))]_vars

\* C14's case: "[Skip to Content](#)[Skip to content](#a)" comes back empty.
C14_Witness ==
    /\ pc = "returned"
    /\ markdown_content = <<"[", "Skip to Content", "]", "(", "#", ")",
                            "[", "Skip to content", "]", "(", "#", "a", ")">>
    /\ markdown = <<>>

-----------------------------------------------------------------------------
(* Properties of the BlessCrawl client.                                    *)

\* The format asked for: that of the options passed to scrape, else that of
\* the instance's configuration.
RequestedFormat ==
    IF call.op = "scrape" /\ call.options # None
    THEN call.options.format ELSE crawler.config.format

C18_LimitsBeforeHostCall ==
    /\ [](\A i \in 1..Len(host) :
             /\ host[i].options.timeout <= 120000
             /\ host[i].options.wait_time <= 20000)
    /\ [][(pc = "with_config" \/ (pc = "ready" /\ call'.op = "scrape" /\ call'.options # None)) =>
             (LET config == call'.options
              IN  /\ config.timeout > 120000 =>
                         /\ outcome' = Err("InvalidTimeout")
                         /\ pc' = "returned"
                         /\ host' = host
                  /\ config.timeout <= 120000 /\ config.wait_time > 20000 =>
                         /\ outcome' = Err("InvalidWaitTime")
                         /\ pc' = "returned"
                         /\ host' = host
                  /\ config.timeout <= 120000 /\ config.wait_time <= 20000 =>
                         /\ outcome' = outcome
                         /\ pc' # "returned")]_vars

\* A scrape whose options exceed both limits has returned InvalidTimeout and
\* the host has seen no request.
C18_Witness ==
    /\ pc = "returned"
    /\ call.op = "scrape"
    /\ call.options # None
    /\ call.options.timeout > 120000
    /\ call.options.wait_time > 20000
    /\ outcome = Err("InvalidTimeout")
    /\ host = <<>>

-----------------------------------------------------------------------------
(* The frame of pruning.                                                   *)

InsideUnwanted(n) ==
    \E m \in Input : /\ opts.html.data[m].tag \in UnwantedTags
                     /\ Encloses(opts.html.kids, m, n)

PruningDone == pc = "srcset"

NothingRequested ==
    /\ opts.include_tags = <<>>
    /\ opts.exclude_tags = <<>>
    /\ ~opts.only_main_content

-----------------------------------------------------------------------------
(* The include step.                                                       *)

IncludeMatches == { n \in Input : MatchesAny(opts.html.data[n], opts.include_tags) }

\* The first selector of include_tags that matches n.
FirstSelector(n) ==
    CHOOSE i \in DOMAIN opts.include_tags :
        /\ Matches(opts.html.data[n], opts.include_tags[i])
        /\ \A j \in 1..(i - 1) : ~Matches(opts.html.data[n], opts.include_tags[j])

\* The position of n in the document order of the input.
DocumentOrder(n) ==
    LET order == InclusiveDescendants(opts.html.kids, DocumentNode)
    IN  CHOOSE i \in DOMAIN order : order[i] = n

SelectorThenDocumentOrder(a, b) ==
    \/ FirstSelector(a) < FirstSelector(b)
    \/ FirstSelector(a) = FirstSelector(b) /\ DocumentOrder(a) < DocumentOrder(b)

\* C19: after the include step every node of the original document that an
\* include selector matches is a direct child of the wrapper root, moved and
\* not cloned (it is there once and no longer in the original document), and
\* the children of the wrapper are ordered by selector first and by document
\* order within one selector; also for a node matched by a later selector
\* that lies inside a node matched by an earlier one.
C19_AsClaimed ==
    [][(pc = "include" /\ opts.include_tags # <<>> /\ pc' = "unwanted") =>
          (LET wrapped == kids'[WrapperDiv]
           IN  /\ Range(wrapped) = IncludeMatches
               /\ \A i, j \in DOMAIN wrapped :
                      i < j => SelectorThenDocumentOrder(wrapped[i], wrapped[j])
               /\ IncludeMatches \cap Reachable(kids', DocumentNode) = {})]_vars

-----------------------------------------------------------------------------
(* Exclusion and the main-content filter.                                  *)

\* n had a force-include element strictly inside it in the input.
HadForceBelow(n) ==
    \E m \in Reachable(opts.html.kids, n) \ {n} :
        MatchesAny(opts.html.data[m], FORCE_INCLUDE_MAIN_TAGS)

ExclusionIsComplete ==
    /\ [](pc = "main" => \A n \in Output : ~MatchesAny(data[n], ValidExcludes))
    /\ [][(pc = "exclude" /\ pc' # "exclude") => pc' = "main"]_vars
    /\ [](Returned => \A n \in Output : ~MatchesAny(data[n], ValidExcludes))

-----------------------------------------------------------------------------
(* Errors of the pipeline.                                                 *)

\* C21: the first fatal error in pipeline order is the one returned, and
\* nothing partial is: transform_html with an include selector that does not
\* parse ends with SelectError whether or not the base URL parses; in scrape
\* and in crawl a failing transform_html, for the page at any position, ends
\* the call with Err(TransformError), which carries no content, also when
\* earlier pages have been transformed.
C21_FirstFatalError ==
    /\ []((pc = "done" /\ HasBadSelector(opts.include_tags)) =>
              result = Err("SelectError"))
    /\ []((pc = "done" /\ result.status = "Err" /\ result.err = "UrlParseError") =>
              ~HasBadSelector(opts.include_tags))
    /\ [][(pc = "done" /\ call.op \in {"scrape", "crawl"} /\ result.status = "Err") =>
              /\ outcome' = [status |-> "Err", err |-> "TransformError", content |-> <<>>]
              /\ pc' = "returned"]_vars
    /\ []((pc = "returned" /\ call.op \in {"scrape", "crawl"} /\ outcome.status = "Ok") =>
              result.status # "Err")

\* A crawl of two pages has transformed and stored the first, failed on the
\* base URL of the second, and returned TransformError without content.
C21_Witness ==
    /\ pc = "returned"
    /\ call.op = "crawl"
    /\ Len(contents) = 1
    /\ Len(pages) = 1
    /\ result = Err("UrlParseError")
    /\ outcome = Err("TransformError")
    /\ outcome.content = <<>>

-----------------------------------------------------------------------------
(* The frame of remove_skip_to_content_links.                              *)

\* How many characters of text up to i lie outside its skip links.
Rank(text, i) == Cardinality({j \in 1..i : j \notin InSkipLink(text)})

\* A link with the skip label and a one-character target that is no
\* fragment starts at i.
OtherLinkAt(text, i) ==
    /\ i + 5 <= Len(text)
    /\ text[i] = "["
    /\ text[i + 1] \in {"Skip to Content", "Skip to content"}
    /\ text[i + 2] = "]"
    /\ text[i + 3] = "("
    /\ text[i + 4] # "#"
    /\ text[i + 5] = ")"

-----------------------------------------------------------------------------
(* What the main-content filter leaves.                                    *)

PruningSteps == {"include", "unwanted", "exclude", "main"}

\* C23: with only_main_content true, every force-include element that is in
\* the document when the main-content filter starts is in it afterwards
\* with all of its ancestors (the nodes that are or contain a force-include
\* element stay, each below the same parent), also when it or an ancestor
\* matches a non-main selector, and the later steps remove no node, so it
\* is in the output;
\* every non-main element of the output is or contains a force-include
\* element.
C23_ForceIncludeSurvives ==
    /\ [][(pc = "main" /\ opts.only_main_content) =>
             (LET protected == {a \in Output : ForceIn(kids, a)}
              IN  /\ protected \subseteq Output'
                  /\ \A a \in protected :
                         \A c \in Range(kids[a]) :
                             c \in protected => c \in Range(kids'[a]))]_vars
    /\ [][(pc \notin PruningSteps) => (kids' = kids /\ document' = document)]_vars
    /\ []((Returned /\ opts.only_main_content) =>
             \A n \in Output : NonMain(n) => ForceIn(kids, n))

\* A returned document in which a #main element lies in a .widget element
\* that lies in a .widget#main element: all three non-main or inside
\* non-main, all three in the output.
C23_Witness ==
    /\ Returned
    /\ opts.only_main_content
    /\ opts.exclude_tags = <<>>
    /\ \E a, b, c \in ContentNodes :
          /\ opts.html.data[a] = El("div", {"widget"}, "main")
          /\ opts.html.data[b] = El("div", {"widget"}, "")
          /\ opts.html.data[c] = El("div", {}, "main")
          /\ opts.html.kids[a] = <<b>>
          /\ opts.html.kids[b] = <<c>>
          /\ {a, b, c} \subseteq Output

-----------------------------------------------------------------------------
(* No node twice.                                                          *)

NoNodeTwice(order) == \A i, j \in DOMAIN order : order[i] = order[j] => i = j

\* n lies inside another node that an include selector matches.
NestedMatch(n) ==
    \E a \in IncludeMatches : a # n /\ Encloses(opts.html.kids, a, n)

\* C24: the include step duplicates no node: each node is at most once in
\* the document it leaves, also a node that several include selectors match;
\* a matched node nested inside another matched node is moved out of that
\* ancestor: it is a child of the wrapper root and of nothing else.
C24_AsClaimed ==
    [][(pc = "include" /\ opts.include_tags # <<>> /\ pc' = "unwanted") =>
          (LET after == kids'
           IN  /\ NoNodeTwice(InclusiveDescendants(after, NewDocument))
               /\ \A n \in IncludeMatches :
                      NestedMatch(n) =>
                          \A parent \in Nodes :
                              (n \in Range(after[parent])) = (parent = WrapperDiv))]_vars

-----------------------------------------------------------------------------
(* The src that srcset resolution writes.                                  *)

\* An entry that names no image: nothing between two commas, or a
\* descriptor without a number.
Unusable(entry) == entry.url = EmptyRef \/ (entry.has_desc /\ ~entry.token.parses)

\* C25: the src of an img after the srcset step is the src it had or a
\* non-empty url listed in its srcset; an img whose srcset has no usable
\* entry (an empty value, an empty entry from a trailing comma, descriptors
\* without a number) keeps the src it had.
C25_AsClaimed ==
    [][(pc = "srcset" /\ pc' = "base") =>
          (LET after == data'
           IN  \A n \in Output :
                   LET e == data[n]
                   IN  IsSrcsetImage(e) =>
                           /\ \/ after[n].src = e.src
                              \/ /\ after[n].src # EmptyRef
                                 /\ after[n].src # NoAttr
                                 /\ \E i \in DOMAIN e.srcset : e.srcset[i].url = after[n].src
                           /\ (\A i \in DOMAIN e.srcset : Unusable(e.srcset[i])) =>
                                  after[n].src = e.src)]_vars

-----------------------------------------------------------------------------
(* Termination.                                                            *)

\* The elements matching sel that are attached to the working document.
Attached(k, sel) == {n \in Reachable(k, document) : Matches(data[n], sel)}

DetachLoops == {"unwanted", "exclude"}

\* C26: transform_html terminates: every call reaches its end; a turn of a
\* find-first-and-detach loop (the noise selectors, the exclude selectors,
\* also one matching the root element or every element) either strictly
\* decreases the number of attached elements matching the current selector
\* or, none being left, changes nothing and moves on; each later pass is a
\* single run over the matches collected at its start.
C26_Terminates ==
    /\ <>(pc = "done")
    /\ [][(pc \in DetachLoops) =>
             (LET selectors == IF pc = "unwanted" THEN unwanted_selectors
                               ELSE opts.exclude_tags
                  before == IF idx <= Len(selectors) /\ SelectorOk(selectors[idx])
                            THEN Attached(kids, selectors[idx]) ELSE {}
              IN  IF before # {}
                  THEN /\ Cardinality(Attached(kids', selectors[idx])) < Cardinality(before)
                       /\ pc' = pc /\ idx' = idx
                  ELSE /\ kids' = kids
                       /\ pc' # pc \/ idx' = idx + 1)]_vars
    /\ [][(pc \notin DetachLoops) => pc' # pc]_vars

\* A call whose exclude selector matches every element has ended with an
\* empty document.
C26_Witness ==
    /\ pc = "done"
    /\ opts.exclude_tags = <<AnySel>>
    /\ Returned
    /\ kids[DocumentNode] = <<>>

-----------------------------------------------------------------------------
(* The outcomes of scrape.                                                 *)

\* C27: scrape returns Ok only when the host's exit code is 0, bytes_written
\* is above 0 and at most the size of the result buffer, the response
\* parses, its error field is null and transform_html succeeds; otherwise it
\* returns the error of the first check that fails, in this order: invalid
\* per-request options, the host's exit code, EmptyResponse, MemoryError,
\* ParseError, RuntimeError, TransformError.  The host is called at most
\* once.
C27_AsClaimed ==
    (pc = "returned" /\ call.op = "scrape") =>
        /\ Len(host) <= 1
        /\ LET reply == call.reply
               expected ==
                   IF call.options # None /\ call.options.timeout > 120000
                       THEN "InvalidTimeout"
                   ELSE IF call.options # None /\ call.options.wait_time > 20000
                       THEN "InvalidWaitTime"
                   ELSE IF reply.code = 2 THEN "Timeout"
                   ELSE IF reply.code # 0 THEN "RuntimeError"
                   ELSE IF reply.bytes_written = 0 THEN "EmptyResponse"
                   ELSE IF reply.bytes_written > 2 * 1024 * 1024 THEN "MemoryError"
                   ELSE IF ~reply.parses THEN "ParseError"
                   ELSE IF reply.error # "" THEN "RuntimeError"
                   ELSE IF result.status # "Ok" THEN "TransformError"
                   ELSE "Ok"
           IN  IF expected = "Ok" THEN outcome.status # "Err"
               ELSE outcome = [status |-> "Err", err |-> expected, content |-> <<>>]

-----------------------------------------------------------------------------
(* Properties of the instance's handle.                                    *)

Closes == {i \in DOMAIN host : host[i].op = "close"}

\* C28: handle() of an instance is 0 after any sequence of scrape, map and
\* crawl calls, failed or not: what the host writes goes to the method's
\* local copy and leaves the instance as it was; drop calls close exactly
\* when the stored handle is not 0, so that for an instance from default()
\* or with_config() close is never called.
C28_HandleStaysZero ==
    /\ [](crawler.inner = 0 /\ Closes = {})
    /\ [][(pc = "host") => (crawler' = crawler /\ host' = host)]_vars
    /\ [][(pc' = "dropped") => ((host' # host) <=> (crawler.inner # 0))]_vars

\* C28's case: the host left a handle other than 0 in the local copy of a
\* crawl that succeeded, the caller got the instance back and dropped it,
\* and no close call was made.
C28_Witness ==
    /\ pc = "dropped"
    /\ call.op = "crawl"
    /\ call.handle # 0
    /\ call.reply # None /\ CheckReply("crawl", call.reply) = "Ok"
    /\ outcome = Running
    /\ host = <<>>
    /\ crawler.inner = 0

-----------------------------------------------------------------------------
(* Properties of the RPC client.                                           *)

\* C29 as claimed: the requests of one client carry the ids 1, 2, 3, ... in
\* call order, so no two of them share an id: every call takes the current
\* next_id as its id and leaves next_id one higher, whether it then fails
\* or succeeds, and nothing else changes next_id.
C29_AsClaimed ==
    /\ [](\A i, j \in DOMAIN host : i < j => (1 <= host[i].id /\ host[i].id < host[j].id))
    /\ [][(pc = "rpc_idle" /\ pc' # pc) =>
             (call'.id = client.next_id /\ client'.next_id = client.next_id + 1)]_vars
    /\ [][(pc # "rpc_idle") => client' = client]_vars

-----------------------------------------------------------------------------
(* Properties of Format.                                                   *)

LowercaseName(f) ==
    CASE f = "Markdown" -> "markdown"
      [] f = "Html" -> "html"
      [] f = "Json" -> "json"

\* C30 as claimed: to_string on a Format returns, and returns the
\* lowercase name of the variant; from_str of that name is Ok of the
\* variant, and from_str rejects every string that is not one of the three
\* names.
C30_AsClaimed ==
    /\ []((call.op = "to_string") =>
             <>(/\ call.op = "to_string"
                /\ pc = "format_returned"
                /\ outcome = Ok(LowercaseName(call.arg))))
    /\ [](\A f \in Formats : from_str(LowercaseName(f)) = Ok(f))
    /\ []((pc = "format_returned" /\ call.op = "from_str") =>
             IF \E f \in Formats : call.arg = LowercaseName(f)
             THEN outcome.status = "Ok" /\ LowercaseName(outcome.content) = call.arg
             ELSE outcome.status = "Err")

====
